---------------------------- MODULE Spec2Model ----------------------------
(***************************************************************************)
(* Model of the VisionEdge analytics pipeline.                             *)
(*                                                                         *)
(* BusinessAnalytics (src/detector/business_analytics.py) is modelled as   *)
(* a state machine over its fields; set_business_type (src/app.py) is the  *)
(* control call that switches the business type.                           *)
(*                                                                         *)
(* Time is an integer clock of seconds (time.time()).  A dict is a         *)
(* sequence of entries in insertion order (object_tracking) or a function  *)
(* whose DOMAIN is the set of keys present (defaultdict maps).  A float    *)
(* quotient n/d is the pair <<n, d>> with d > 0, compared by cross         *)
(* multiplication.  The confidence of a detection is carried through the   *)
(* code unread by anything below except confidence_avg and is left out.    *)
(*                                                                         *)
(* Spec     : every handler runs to completion (one thread).               *)
(* ConcSpec : process_detection runs statement by statement on the worker  *)
(*            thread while set_business_type runs on a request thread.     *)
(***************************************************************************)
EXTENDS Integers, Sequences, FiniteSets, TLC

\* ------------------------------------------------------------------ bounds
MaxTime  == 5     \* the clock runs over 0 .. MaxTime
MaxCalls == 3     \* handler calls (process_detection, set_business_type) in a behaviour
MaxShift == 2     \* detections are boxes <<x, 0, x+4, 2>>, x in 0 .. MaxShift
MaxConcCalls == 2 \* handler calls in a behaviour of the interleaved threads
MaxLoadTime == 1  \* the clock of a behaviour of InsightSpec runs over 0 .. MaxLoadTime
MaxLoadCalls == 22 \* process_detection calls in a behaviour of InsightSpec
MaxCapTime == 1   \* the clock of a behaviour of CapSpec runs over 0 .. MaxCapTime
MaxCapCalls == 102 \* process_detection calls in a behaviour of CapSpec
MaxConnects == 2  \* connect calls in a behaviour of PipeSpec
MaxStops == 2     \* stop_detection / disconnect calls in a behaviour
MaxPipeReads == 1 \* frames the source delivers in a behaviour of PipeSpec
MaxFeedReads == 15 \* frames the source delivers in a behaviour of FeedSpec
MaxStarts == 1    \* start_stream_detection calls in a behaviour
MaxRequests == 3  \* connect, start and stop calls in a behaviour, together
MaxPipeRequests == 2 \* the same, in a behaviour of PipeSpec
MaxServeReads == 2 \* frames the source delivers in a behaviour of ServeSpec
MaxServeElapsed == 300 \* ms the clock of ServeSpec runs beyond Epoch
MaxFaults == 1    \* exceptions the worker loops catch in a behaviour of LoopSpec
MaxLoopReads == 2 \* frames the source delivers in a behaviour of LoopSpec
MaxFileLines == 2 \* lines of the log file an EventLogger of ReloadSpec is built on
MaxLogged == 2    \* log_event calls in a behaviour of LoggerSpec
MaxRingLogged == 1002 \* log_event calls in a behaviour of RingSpec
MaxSkipReads == 5 \* frames the source delivers in a behaviour of SkipSpec
MaxElapsed == 1200 \* ms the clock of SkipSpec runs beyond Epoch

\* ------------------------------------------------------- program constants
StaleAfter == 5       \* seconds an object or a history entry is kept
PerfCap    == 100     \* performance_history capacity
TrendCap   == 100     \* object_trends capacity per class

QueueMax   == 10      \* Queue(maxsize=10)

NoCap    == 0         \* self.cap = None
NoThread == 0         \* self.processing_thread = None
NoImage  == 0         \* self.current_frame = None

max_events == 1000     \* EventLogger.max_events, the maxlen of the deque

max_retries == 3       \* _connect_to_stream: attempts
retry_delay == 2       \* _connect_to_stream: seconds between two attempts
ReadTimeout == 5       \* _connect_to_stream: seconds to wait for a frame
Unopened    == 0 - 1   \* an attempt whose capture does not open

frame_interval == 33       \* self.frame_interval = 0.033, in ms
detection_interval == 100  \* self.detection_interval = 0.1, in ms
max_skip_frames == 3       \* self.max_skip_frames
DelayLimit == 100          \* if self.processing_delay > 0.1, in ms

Epoch == 2000          \* ms on the clock when the controller is built: as
                       \* with time.time(), more than any interval compared

ConfiguredTypes == {"supermarket", "pharmacy", "condominium"}

\* request bodies of /set_business_type: the configured types, a type that
\* is not configured, and a missing type
TypeInputs == ConfiguredTypes \cup {"bakery", ""}

MaxDelay == 300

MaxCoord == 2

MaxBoxes == 2

MaxFrames == 2

FrameHeight == 3

Classes == {"person", "bottle"}

FrameWidth == MaxShift + 5

Boxes == {<<x, 0, x + 4, 2>> : x \in 0 .. MaxShift}

VARIABLES
  now,                 \* time.time()
  business_type,       \* BusinessAnalytics.business_type
  metrics,             \* BusinessAnalytics.metrics
  detection_history,   \* BusinessAnalytics.detection_history
  last_update,         \* BusinessAnalytics.last_update
  object_tracking,     \* BusinessAnalytics.object_tracking (insertion order)
  performance_history, \* BusinessAnalytics.performance_history
  pc,                  \* worker position inside process_detection
  frame,               \* worker locals of the call in progress
  sw,                  \* request thread position inside set_business_type
  nCalls,              \* handler calls entered so far
  sinceSwitch,         \* calls entered since the latest switch request began
  last,                \* observation of the latest completed operation
  is_running,          \* VideoProcessor.is_running
  cap,                 \* VideoProcessor.cap: a capture handle, or NoCap
  current_frame,       \* VideoProcessor.current_frame: a frame, or NoImage
  frame_queue,         \* VideoProcessor.frame_queue, oldest frame first
  processing_thread,   \* VideoProcessor.processing_thread: a thread, or NoThread
  workers,             \* the threads started on _process_frames_thread
  feeds,               \* the generate_frames loops of the /video_feed clients
  ctl,                 \* the request thread inside connect or stop_detection
  handles,             \* the cv2.VideoCapture objects created so far
  nReads,              \* frames the source has delivered so far
  clock,               \* time.time() of the pipeline threads, in milliseconds
  last_frame_time,     \* VideoProcessor.last_frame_time
  last_detection_time, \* VideoProcessor.last_detection_time
  skip_frames,         \* VideoProcessor.skip_frames
  skip_run,            \* worker cycles in a row that skipped detection,
                       \* counted up to max_skip_frames + 1
  faults,              \* exceptions the worker loops have caught so far
  origin,              \* the capture handle each delivered frame was read from
  events_buffer,       \* EventLogger.events_buffer, oldest event first
  log_lines,           \* the lines of the file EventLogger.log_file
  nLogged,             \* log_event calls so far
  answer,              \* the latest get_events call and what it returned
  serve,               \* the generate_frames loops of video_processor_new.py
  invoked,             \* when the detector (self.model) was invoked, the
                       \* latest two times
  detected,            \* the boxes self.model returned for the latest frame
  handled,             \* the detection_data process_frame handed to
                       \* process_detection for the latest frame
  nFrames,             \* process_frame calls that reached the detector
  probe,               \* a call of _calculate_iou or of _determine_zone on
                       \* its own: the arguments and the results
  stopper              \* a second request thread inside stop_detection

analytics_vars == <<now, business_type, metrics, detection_history,
                    last_update, object_tracking, performance_history, pc,
                    frame, sw, nCalls, sinceSwitch, last>>

pipeline_vars == <<is_running, cap, current_frame, frame_queue,
                   processing_thread, workers, feeds, ctl, handles, nReads>>

timing_vars == <<clock, last_frame_time, last_detection_time, skip_frames,
                 skip_run, faults, origin>>

logger_vars == <<events_buffer, log_lines, nLogged, answer>>

serve_vars == <<serve, invoked>>

frame_vars == <<detected, handled, nFrames, probe, stopper>>

rest_vars == <<timing_vars, logger_vars, serve_vars, frame_vars>>

vars == <<analytics_vars, pipeline_vars, rest_vars>>

\* ------------------------------------------------------------ small helpers
EmptyMap == [k \in {} |-> 0]

\* Python's None, also for an id or a key that is absent
None == <<>>

Incr(m, k) == IF k \in DOMAIN m THEN [m EXCEPT ![k] = @ + 1] ELSE m @@ (k :> 1)

RECURSIVE SumSeq(_)
SumSeq(s) == IF s = <<>> THEN 0 ELSE Head(s) + SumSeq(Tail(s))

Max2(a, b) == IF a > b THEN a ELSE b
Min2(a, b) == IF a < b THEN a ELSE b

\* a / b > c / d for quotients held as pairs with positive denominators
Greater(p, q) == p[1] * q[2] > q[1] * p[2]

\* ---------------------------------------------------------- zone classifier
\* a classifier that looks at the left edge instead of the centre
ZoneByLeftEdge(bbox, width) ==
  IF bbox[1] * 100 < width * 33 THEN "entrance"
  ELSE IF bbox[1] * 100 < width * 66 THEN "middle"
  ELSE "exit"

\* center_x < width * 0.33, center_x = (x1 + x2) / 2, over the integers
_determine_zone(bbox, width) ==
  IF (bbox[1] + bbox[3]) * 50 < width * 33 THEN "entrance"
  ELSE IF (bbox[1] + bbox[3]) * 50 < width * 66 THEN "middle"
  ELSE "exit"

\* the detection_data dict process_frame hands to process_detection
Detection(c, b) ==
  [class_name |-> c, bbox |-> b, zone |-> _determine_zone(b, FrameWidth)]

Detections == {Detection(c, b) : c \in Classes, b \in Boxes}

\* ------------------------------------------------------------------ tracker
\* the intersection over the area of the first box
IouOverFirstBox(box1, box2) ==
  LET x1 == Max2(box1[1], box2[1])
      y1 == Max2(box1[2], box2[2])
      x2 == Min2(box1[3], box2[3])
      y2 == Min2(box1[4], box2[4])
      intersection == Max2(0, x2 - x1) * Max2(0, y2 - y1)
      box1_area == (box1[3] - box1[1]) * (box1[4] - box1[2])
  IN  IF box1_area > 0 THEN <<intersection, box1_area>> ELSE <<0, 1>>

\* intersection / union if union > 0 else 0, the quotient held as a pair
_calculate_iou(box1, box2) ==
  LET x1 == Max2(box1[1], box2[1])
      y1 == Max2(box1[2], box2[2])
      x2 == Min2(box1[3], box2[3])
      y2 == Min2(box1[4], box2[4])
      intersection == Max2(0, x2 - x1) * Max2(0, y2 - y1)
      box1_area == (box1[3] - box1[1]) * (box1[4] - box1[2])
      box2_area == (box2[3] - box2[1]) * (box2[4] - box2[2])
      union == box1_area + box2_area - intersection
  IN  IF union > 0 THEN <<intersection, union>> ELSE <<0, 1>>

\* an off-by-one cleaning, which keeps an object unseen for exactly 5 s
LiveObjectsInclusive(tracking, current_time) ==
  SelectSeq(tracking, LAMBDA v : current_time - v.last_seen <= StaleAfter)

\* "Limpa objetos antigos": the entries the dict comprehension keeps
LiveObjects(tracking, current_time) ==
  SelectSeq(tracking, LAMBDA v : current_time - v.last_seen < StaleAfter)

\* a matching loop that tests iou >= best_iou, so the last of equals wins
BetterOrEqual(iou, best_iou) == ~Greater(best_iou, iou)

\* the test of the matching loop: iou > best_iou
Better(iou, best_iou) == Greater(iou, best_iou)

\* one iteration of the for loop over object_tracking.items(): an entry of
\* the dict, at index n, with its iou, against (best_match, best_iou);
\* best_match is an index, 0 for None
MatchStep(best, same_class, iou, n) ==
  IF same_class /\ Better(iou, best.best_iou)
  THEN [best_match |-> n, best_iou |-> iou]
  ELSE best

RECURSIVE BestMatchLoop(_, _, _)
\* (best_match, best_iou) after the first n iterations
BestMatchLoop(tracking, det, n) ==
  IF n = 0 THEN [best_match |-> 0, best_iou |-> <<1, 2>>]
  ELSE MatchStep(BestMatchLoop(tracking, det, n - 1),
                 tracking[n].class = det.class_name,
                 _calculate_iou(det.bbox, tracking[n].bbox), n)

BestMatch(tracking, det) ==
  BestMatchLoop(tracking, det, Len(tracking)).best_match

\* a tracker that counts a transition on every match
TransitionKeyAlways(old_zone, new_zone) == <<old_zone, new_zone>>

\* the key "{old_zone}_to_{new_zone}" of the transition counter a match
\* increments, None for no increment
TransitionKey(old_zone, new_zone) ==
  IF old_zone # new_zone THEN <<old_zone, new_zone>> ELSE None

\* an update that forgets the trajectory
UpdateMatchedNoTrajectory(obj, det, current_time) ==
  [obj EXCEPT !.bbox = det.bbox,
              !.last_seen = current_time,
              !.zone = det.zone]

\* object_tracking[best_match].update({...})
UpdateMatched(obj, det, current_time) ==
  [obj EXCEPT !.bbox = det.bbox,
              !.last_seen = current_time,
              !.zone = det.zone,
              !.trajectory = Append(@, det.bbox)]

\* f"{class_name}_{len(self.object_tracking)}"
NewObjectId(tracking, det) == <<det.class_name, Len(tracking)>>

NewObject(id, det, current_time) ==
  [id |-> id, class |-> det.class_name, bbox |-> det.bbox,
   first_seen |-> current_time, last_seen |-> current_time,
   zone |-> det.zone, trajectory |-> <<det.bbox>>]

\* self.object_tracking[obj_id] = {...}: a key already present keeps its
\* place in the dict and has its value replaced
DictSet(tracking, obj) ==
  IF \E i \in 1 .. Len(tracking) : tracking[i].id = obj.id
  THEN [i \in 1 .. Len(tracking) |->
          IF tracking[i].id = obj.id THEN obj ELSE tracking[i]]
  ELSE Append(tracking, obj)

\* what _track_object did: the dict and the metrics it leaves, the id it
\* returned, the branch it took, and what it found on the way
TrackResult(tracking, mtr, ret, branch, evicted, key, live) ==
  [tracking |-> tracking, metrics |-> mtr, ret |-> ret, branch |-> branch,
   evicted |-> evicted, key |-> key, live |-> live]

\* zone_transitions[key] += 1 of the active type
CountTransition(mtr, bt, key) ==
  IF key = None THEN mtr
  ELSE [mtr EXCEPT ![bt].zone_transitions = Incr(@, key)]

\* "Atualiza objeto existente": entry m of the dict matched.  The metrics
\* of a type that has none raise KeyError before the update.
TrackMatched(live, m, key, bt, mtr, det, current_time, evicted) ==
  IF key # None /\ bt \notin DOMAIN mtr
  THEN TrackResult(live, mtr, None, "raised", evicted, key, live)
  ELSE TrackResult([live EXCEPT ![m] = UpdateMatched(@, det, current_time)],
                   CountTransition(mtr, bt, key), live[m].id, "matched",
                   evicted, key, live)

\* "Cria novo objeto"
TrackCreated(live, id, mtr, det, current_time, evicted) ==
  TrackResult(DictSet(live, NewObject(id, det, current_time)), mtr, id,
              "created", evicted, None, live)

\* "if best_match is not None"
TrackBranch(live, m, bt, mtr, det, current_time, evicted) ==
  IF m # 0
  THEN TrackMatched(live, m, TransitionKey(live[m].zone, det.zone), bt, mtr,
                    det, current_time, evicted)
  ELSE TrackCreated(live, NewObjectId(live, det), mtr, det, current_time,
                    evicted)

\* the matching on the dict already cleaned
TrackLive(live, bt, mtr, det, current_time, evicted) ==
  TrackBranch(live, BestMatch(live, det), bt, mtr, det, current_time, evicted)

\* _track_object on the tracking dict and the metrics
_track_object(tracking, bt, mtr, det, current_time) ==
  TrackLive(LiveObjects(tracking, current_time), bt, mtr, det, current_time,
            Len(tracking) - Len(LiveObjects(tracking, current_time)))

\* ------------------------------------------------------------------ metrics
Products == {"bottle", "cup", "bowl", "banana", "apple", "orange",
             "sandwich", "carrot"}

\* counter name -> the classes the counter's comprehension counts
CounterClasses ==
  [supermarket |->
     [person_count |-> {"person"}, cart_count |-> {"shopping cart"},
      product_count |-> Products, backpack_count |-> {"backpack"},
      handbag_count |-> {"handbag"}, cellphone_count |-> {"cell phone"}],
   pharmacy |->
     [person_count |-> {"person"}, prescription_count |-> {"book"},
      medicine_count |-> {"bottle", "cup", "bowl"},
      backpack_count |-> {"backpack"}, handbag_count |-> {"handbag"},
      chair_count |-> {"chair"}],
   condominium |->
     [person_count |-> {"person"}, car_count |-> {"car"},
      bicycle_count |-> {"bicycle"}, dog_count |-> {"dog"},
      cat_count |-> {"cat"}, backpack_count |-> {"backpack"}]]

ZeroTypeMetrics(bt) ==
  [counts |-> [c \in DOMAIN CounterClasses[bt] |-> 0],
   zone_density |-> EmptyMap,
   average_stay_time |-> <<0, 1>>,
   peak_hours |-> EmptyMap,
   object_trends |-> EmptyMap,
   zone_transitions |-> EmptyMap,
   performance_metrics |->
     [detection_rate |-> <<0, 1>>, processing_time |-> <<0, 1>>]]

ZeroMetrics == [bt \in ConfiguredTypes |-> ZeroTypeMetrics(bt)]

\* the fields of BusinessAnalytics a handler reads and writes, with the
\* outcome of the handler so far
Fields ==
  [business_type |-> business_type, metrics |-> metrics,
   detection_history |-> detection_history, last_update |-> last_update,
   object_tracking |-> object_tracking,
   performance_history |-> performance_history,
   raised |-> FALSE, ret |-> None, branch |-> "", evicted |-> 0, key |-> None,
   live |-> <<>>]

\* a reset that forgets the tracked objects
reset_metrics_keep_tracking(s, current_time) ==
  [s EXCEPT !.metrics = ZeroMetrics,
            !.detection_history = <<>>,
            !.last_update = current_time,
            !.performance_history = <<>>]

reset_metrics(s, current_time) ==
  [s EXCEPT !.metrics = ZeroMetrics,
            !.detection_history = <<>>,
            !.last_update = current_time,
            !.object_tracking = <<>>,
            !.performance_history = <<>>]

\* ------------------------------------------ process_detection, by statement
\* Each statement maps the fields to the fields; after an exception
\* (raised) the statements that follow are not executed.

TrackDone(s, r) ==
  [s EXCEPT !.object_tracking = r.tracking, !.metrics = r.metrics,
            !.ret = r.ret, !.branch = r.branch, !.evicted = r.evicted,
            !.key = r.key, !.live = r.live,
            !.raised = (r.branch = "raised")]

\* obj_id = self._track_object(detection_data)
TrackStmt(s, det, current_time) ==
  TrackDone(s, _track_object(s.object_tracking, s.business_type, s.metrics,
                             det, current_time))

\* self.detection_history.append({...})
AppendStmt(s, det, current_time, obj_id) ==
  IF s.raised THEN s
  ELSE [s EXCEPT !.detection_history =
          Append(@, [time |-> current_time, data |-> det, obj_id |-> obj_id])]

\* an off-by-one pruning, which keeps an entry exactly 5 s old
PruneHistoryInclusive(hist, current_time) ==
  SelectSeq(hist, LAMBDA d : current_time - d.time <= StaleAfter)

PruneHistory(hist, current_time) ==
  SelectSeq(hist, LAMBDA d : current_time - d.time < StaleAfter)

\* self.detection_history = [d for d in ... if current_time - d['time'] < 5]
PruneStmt(s, current_time) ==
  IF s.raised THEN s
  ELSE [s EXCEPT !.detection_history = PruneHistory(@, current_time)]

\* len([d for d in self.detection_history if d class in set and in window])
WindowCount(hist, classes, current_time) ==
  Cardinality({i \in 1 .. Len(hist) :
                 /\ hist[i].data.class_name \in classes
                 /\ current_time - hist[i].time < StaleAfter})

\* the chain of "if detection_data['class_name'] ...: metrics[counter] = len"
UpdateCounters(counts, bt, det, hist, current_time) ==
  [c \in DOMAIN counts |->
     IF det.class_name \in CounterClasses[bt][c]
     THEN WindowCount(hist, CounterClasses[bt][c], current_time)
     ELSE counts[c]]

ZoneCount(hist, zone, current_time) ==
  Cardinality({i \in 1 .. Len(hist) :
                 /\ hist[i].data.zone = zone
                 /\ current_time - hist[i].time < StaleAfter})

\* the persons of the dict whose stay time counts, those of 300 s and
\* more ignored
Stays(tracking) ==
  SelectSeq(tracking, LAMBDA o : o.class = "person"
                                 /\ o.last_seen - o.first_seen < 300)

RECURSIVE SumStay(_)
SumStay(objs) ==
  IF objs = <<>> THEN 0
  ELSE Head(objs).last_seen - Head(objs).first_seen + SumStay(Tail(objs))

\* np.mean(stay_times) "if stay_times"
MeanStay(stays, old) ==
  IF stays # <<>> THEN <<SumStay(stays), Len(stays)>> ELSE old

\* _update_supermarket_metrics / _pharmacy_ / _condominium_: the same body
\* over the counters of the type
UpdateTypeMetrics(m, bt, det, hist, tracking, current_time) ==
  [m EXCEPT
     !.counts = UpdateCounters(@, bt, det, hist, current_time),
     !.zone_density = (det.zone :> ZoneCount(hist, det.zone, current_time)) @@ @,
     !.average_stay_time = MeanStay(Stays(tracking), @)]

\* the if / elif chain on self.business_type; no branch for another type
DispatchStmt(s, det, current_time) ==
  IF s.raised \/ s.business_type \notin ConfiguredTypes THEN s
  ELSE [s EXCEPT !.metrics[s.business_type] =
          UpdateTypeMetrics(@, s.business_type, det, s.detection_history,
                            s.object_tracking, current_time)]

\* an append that, over limit, drops the entry just appended
AppendDropNewest(list, x, limit) ==
  IF Len(list) + 1 > limit THEN list ELSE Append(list, x)

\* append, then pop(0) when longer than limit
AppendCapped(list, x, limit) ==
  IF Len(list) + 1 > limit THEN Tail(Append(list, x)) ELSE Append(list, x)

\* performance_metrics.update({...}); KeyError for a type without metrics
PerfMetrics(s) ==
  IF s.business_type \notin DOMAIN s.metrics
  THEN [s EXCEPT !.raised = TRUE]
  ELSE [s EXCEPT !.metrics[s.business_type].performance_metrics =
          [detection_rate |-> <<Len(s.detection_history), 5>>,
           processing_time |-> <<SumSeq(s.performance_history),
                                 Len(s.performance_history)>>]]

\* performance_history.append(...), pop(0) over 100, then the update
PerfStmt(s, start_time, current_time) ==
  IF s.raised THEN s
  ELSE PerfMetrics([s EXCEPT !.performance_history =
                      AppendCapped(@, current_time - start_time, PerfCap)])

\* datetime.fromtimestamp(current_time).hour
Hour(t) == (t \div 3600) % 24

\* peak_hours[hour] += 1
PeakStmt(s, current_time) ==
  IF s.raised THEN s
  ELSE IF s.business_type \notin DOMAIN s.metrics
  THEN [s EXCEPT !.raised = TRUE]
  ELSE [s EXCEPT !.metrics[s.business_type].peak_hours =
          Incr(@, Hour(current_time))]

\* dict.get(class, []) of a defaultdict(list)
TrendOf(trends, class) ==
  IF class \in DOMAIN trends THEN trends[class] ELSE <<>>

\* object_trends[class].append(current_time), pop(0) over 100; last_update
TrendStmt(s, det, current_time) ==
  IF s.raised THEN s
  ELSE IF s.business_type \notin DOMAIN s.metrics
  THEN [s EXCEPT !.raised = TRUE]
  ELSE [s EXCEPT
          !.metrics[s.business_type].object_trends =
             (det.class_name :>
                AppendCapped(TrendOf(@, det.class_name), current_time, TrendCap)) @@ @,
          !.last_update = current_time]

\* the statements after _track_object, obj_id being what it returned
AfterTrack(s, det, t) ==
  TrendStmt(PeakStmt(PerfStmt(DispatchStmt(PruneStmt(
    AppendStmt(s, det, t, s.ret), t), det, t), t, t), t), det, t)

\* process_detection run to completion, every clock read returning t
process_detection(s, det, t) == AfterTrack(TrackStmt(s, det, t), det, t)

\* metrics = self.metrics[self.business_type] of get_business_insights:
\* KeyError for a type without metrics
InsightsRaises(s) == s.business_type \notin DOMAIN s.metrics

\* business_configs[type]['metrics'], in the order of the dict
MetricConfigs ==
  [supermarket |->
     <<[metric |-> "person_count", threshold |-> 20, warning |-> "Alta movimentação"],
       [metric |-> "cart_count", threshold |-> 10, warning |-> "Muitos carrinhos em uso"],
       [metric |-> "product_count", threshold |-> 50, warning |-> "Alto volume de produtos"],
       [metric |-> "backpack_count", threshold |-> 5, warning |-> "Alto número de mochilas"],
       [metric |-> "handbag_count", threshold |-> 5, warning |-> "Alto número de bolsas"],
       [metric |-> "cellphone_count", threshold |-> 8, warning |-> "Alto uso de celulares"]>>,
   pharmacy |->
     <<[metric |-> "person_count", threshold |-> 10, warning |-> "Alta movimentação"],
       [metric |-> "prescription_count", threshold |-> 5, warning |-> "Alto volume de prescrições"],
       [metric |-> "medicine_count", threshold |-> 20, warning |-> "Alto volume de medicamentos"],
       [metric |-> "backpack_count", threshold |-> 3, warning |-> "Alto número de mochilas"],
       [metric |-> "handbag_count", threshold |-> 3, warning |-> "Alto número de bolsas"],
       [metric |-> "chair_count", threshold |-> 4, warning |-> "Alto uso de cadeiras"]>>,
   condominium |->
     <<[metric |-> "person_count", threshold |-> 15, warning |-> "Alta movimentação"],
       [metric |-> "car_count", threshold |-> 5, warning |-> "Alto fluxo de veículos"],
       [metric |-> "bicycle_count", threshold |-> 3, warning |-> "Alto fluxo de bicicletas"],
       [metric |-> "dog_count", threshold |-> 2, warning |-> "Alto número de cachorros"],
       [metric |-> "cat_count", threshold |-> 2, warning |-> "Alto número de gatos"],
       [metric |-> "backpack_count", threshold |-> 4, warning |-> "Alto número de mochilas"]>>]

\* the hour of the greatest count among hours; of equal counts sorted()
\* keeps the one inserted first, which is the smallest hour while the clock
\* stays within one day
BusiestHour(peak, hours) ==
  CHOOSE h \in hours :
    \A g \in hours : peak[h] > peak[g] \/ (peak[h] = peak[g] /\ h <= g)

\* sorted(peak_hours.items(), key=count, reverse=True)[:k]
RECURSIVE TopHours(_, _, _)
TopHours(peak, hours, k) ==
  IF k = 0 \/ hours = {} THEN <<>>
  ELSE <<BusiestHour(peak, hours)>>
         \o TopHours(peak, hours \ {BusiestHour(peak, hours)}, k - 1)

\* "Horários de pico: ..." when peak_hours is not empty
PeakRecommendation(m) ==
  IF DOMAIN m.peak_hours = {} THEN <<>>
  ELSE << <<"Horários de pico", TopHours(m.peak_hours, DOMAIN m.peak_hours, 3)>> >>

\* "Transição mais comum: ..." when zone_transitions is not empty: max()
\* returns the first key in insertion order among those of the greatest
\* count, one of the keys of this set
MostCommon(transitions) ==
  {k \in DOMAIN transitions :
     \A j \in DOMAIN transitions : transitions[k] >= transitions[j]}

TransitionRecommendation(m) ==
  IF DOMAIN m.zone_transitions = {} THEN <<>>
  ELSE << <<"Transição mais comum", MostCommon(m.zone_transitions)>> >>

\* perf_metrics['processing_time'] > 0.1
PerformanceRecommendation(m) ==
  IF Greater(m.performance_metrics.processing_time, <<1, 10>>)
  THEN << <<"Performance do sistema pode ser otimizada">> >>
  ELSE <<>>

\* a threshold test that also warns at the threshold
ExceedsOrEqual(value, threshold) == value >= threshold

\* metrics[metric] > config['threshold']
Exceeds(value, threshold) == value > threshold

\* the warnings of the configured metrics from the i-th on, in dict order
RECURSIVE ThresholdWarnings(_, _, _)
ThresholdWarnings(configs, counts, i) ==
  IF i > Len(configs) THEN <<>>
  ELSE (IF Exceeds(counts[configs[i].metric], configs[i].threshold)
        THEN << <<configs[i].warning>> >> ELSE <<>>)
       \o ThresholdWarnings(configs, counts, i + 1)

\* the recommendations list of get_business_insights, for a type that has
\* metrics
Recommendations(bt, m) ==
  PeakRecommendation(m) \o TransitionRecommendation(m)
    \o PerformanceRecommendation(m)
    \o ThresholdWarnings(MetricConfigs[bt], m.counts, 1)

\* get_business_insights(): KeyError for a type without metrics
get_business_insights(s) ==
  IF InsightsRaises(s)
  THEN [raised |-> TRUE, business_type |-> s.business_type,
        recommendations |-> <<>>]
  ELSE [raised |-> FALSE, business_type |-> s.business_type,
        recommendations |->
          Recommendations(s.business_type, s.metrics[s.business_type])]

\* ----------------------------------------------------------------- actions
NoDet == [class_name |-> "", bbox |-> <<>>, zone |-> ""]

NoFrame == [det |-> NoDet, start_time |-> 0, current_time |-> 0, obj_id |-> None]

\* zone_transitions of the active type, empty for a type without metrics
Transitions(mtr, bt) ==
  IF bt \in DOMAIN mtr THEN mtr[bt].zone_transitions ELSE EmptyMap

\* what the latest handler call did: its input, the time it read, what
\* _track_object returned and found (live: the dict after the cleaning,
\* before the match), the recommendations get_business_insights returned,
\* and the transition counters when the call began
Observe(op, det, t, s) ==
  [op |-> op, det |-> det, time |-> t, ret |-> s.ret, branch |-> s.branch,
   evicted |-> s.evicted, key |-> s.key, live |-> s.live, insights |-> <<>>,
   transitions_before |->
     IF op = "switch" THEN EmptyMap ELSE Transitions(metrics, business_type)]

\* the assignments a handler made to the fields
Install(s) ==
  /\ business_type' = s.business_type
  /\ metrics' = s.metrics
  /\ detection_history' = s.detection_history
  /\ last_update' = s.last_update
  /\ object_tracking' = s.object_tracking
  /\ performance_history' = s.performance_history

\* a handler returns (or raises) having left the fields as s
Returned(s, op, det) ==
  /\ Install(s)
  /\ last' = Observe(IF s.raised THEN "raised" ELSE op, det, now, s)

\* the clients of /video_feed, each running generate_frames
Viewers == {"viewer1", "viewer2"}

\* a generate_frames loop: where it is, the frame it read, and the latest
\* processed frame it took from current_frame
IdleFeed == [pc |-> "check", frame |-> NoImage, seen |-> NoImage]

\* the request thread: the call it is in and where, the source it was given
\* (stream: what each attempt on a network stream meets), the result of
\* the latest call that returned, the calls made, and the locals of the
\* connection in progress: attempts begun, the handle opened last, seconds
\* waited for its first frame, seconds slept between attempts
IdleCtl == [op |-> "idle", pc |-> "idle", source |-> "", stream |-> <<>>,
            result |-> "", connects |-> 0, stops |-> 0, starts |-> 0,
            attempt |-> 0, trial |-> NoCap, waited |-> 0, slept |-> 0]

\* VideoProcessor.__init__, no /video_feed or control request under way
PipelineInit ==
  /\ is_running = FALSE
  /\ cap = NoCap
  /\ current_frame = NoImage
  /\ frame_queue = <<>>
  /\ processing_thread = NoThread
  /\ workers = <<>>
  /\ feeds = [g \in Viewers |-> IdleFeed]
  /\ ctl = IdleCtl
  /\ handles = <<>>
  /\ nReads = 0

AnalyticsInit ==
  /\ now = 0
  /\ business_type = "supermarket"
  /\ metrics = ZeroMetrics
  /\ detection_history = <<>>
  /\ last_update = 0
  /\ object_tracking = <<>>
  /\ performance_history = <<>>
  /\ pc = "idle"
  /\ frame = NoFrame
  /\ sw = "idle"
  /\ nCalls = 0
  /\ sinceSwitch = 0
  /\ last = Observe("init", NoDet, 0, Fields)

\* VideoProcessor.__init__: the timing fields; the clock reads Epoch
TimingInit ==
  /\ clock = Epoch
  /\ last_frame_time = 0
  /\ last_detection_time = 0
  /\ skip_frames = 0
  /\ skip_run = 0
  /\ faults = 0
  /\ origin = <<>>

\* no get_events call has returned
NoAnswer == [asked |-> FALSE, limit |-> 0, event_type |-> None,
             start_time |-> None, end_time |-> None, events |-> <<>>]

\* EventLogger.__init__ on a log file that does not exist yet
LoggerInit ==
  /\ events_buffer = <<>>
  /\ log_lines = <<>>
  /\ nLogged = 0
  /\ answer = NoAnswer

\* a /video_feed client of video_processor_new.py before its first iteration
IdleServe == [pc |-> "check", t |-> 0]

ServeInit ==
  /\ serve = [g \in Viewers |-> IdleServe]
  /\ invoked = <<>>

\* neither function has been called on its own
NoProbe == [a |-> <<>>, b |-> <<>>, ab |-> <<>>, ba |-> <<>>, aa |-> <<>>,
            width |-> 0, zone |-> ""]

\* no process_frame call has reached the detector, no second request
FrameInit ==
  /\ detected = <<>>
  /\ handled = <<>>
  /\ nFrames = 0
  /\ probe = NoProbe
  /\ stopper = "idle"

RestInit == TimingInit /\ LoggerInit /\ ServeInit /\ FrameInit

Init == AnalyticsInit /\ PipelineInit /\ RestInit

\* the clock advances by one second; only handler calls read it, and only
\* differences of its readings matter, so it runs from the first call of
\* the behaviour while another call remains
Tick ==
  /\ now < MaxTime
  /\ 0 < nCalls /\ nCalls < MaxCalls
  /\ now' = now + 1
  /\ UNCHANGED <<business_type, metrics, detection_history, last_update,
                 object_tracking, performance_history, pc, frame, sw, nCalls,
                 sinceSwitch, last>>
  /\ UNCHANGED <<pipeline_vars, rest_vars>>

\* BusinessAnalytics.process_detection(detection_data), run to completion
ProcessDetection(det) ==
  /\ pc = "idle" /\ sw = "idle"
  /\ nCalls < MaxCalls
  /\ Returned(process_detection(Fields, det, now), "process", det)
  /\ nCalls' = nCalls + 1
  /\ sinceSwitch' = sinceSwitch + 1
  /\ UNCHANGED <<now, pc, frame, sw>>
  /\ UNCHANGED <<pipeline_vars, rest_vars>>

\* POST /set_business_type with a business_type: assign, then reset_metrics
SetBusinessType(bt) ==
  /\ pc = "idle" /\ sw = "idle"
  /\ nCalls < MaxCalls
  /\ bt # ""
  /\ Returned(reset_metrics([Fields EXCEPT !.business_type = bt,
                                          !.evicted = Len(object_tracking)],
                            now),
              "switch", NoDet)
  /\ nCalls' = nCalls + 1
  /\ sinceSwitch' = 0
  /\ UNCHANGED <<now, pc, frame, sw>>
  /\ UNCHANGED <<pipeline_vars, rest_vars>>

\* POST /set_business_type without a business_type: 400, nothing assigned
RejectBusinessType(bt) ==
  /\ pc = "idle" /\ sw = "idle"
  /\ bt = ""
  /\ UNCHANGED vars

Next ==
  \/ Tick
  \/ \E det \in Detections : ProcessDetection(det)
  \/ \E bt \in TypeInputs : SetBusinessType(bt)
  \/ \E bt \in TypeInputs : RejectBusinessType(bt)

Spec == Init /\ [][Next]_vars

\* ------------------------------------------- a stream of one kind of object
\* InsightSpec: the type is chosen, then detections of one class at one
\* place arrive in numbers that reach the thresholds, and
\* /get_business_insights is read between them.
LoadClasses == {"person", "dog", "backpack"}

LoadDetections == {Detection(c, <<0, 0, 4, 2>>) : c \in LoadClasses}

\* the type is set before the first detection
InsightSwitch(bt) ==
  /\ nCalls = 0 /\ last.op = "init"
  /\ bt # ""
  /\ Returned(reset_metrics([Fields EXCEPT !.business_type = bt], now),
              "switch", NoDet)
  /\ UNCHANGED <<now, pc, frame, sw, nCalls, sinceSwitch>>
  /\ UNCHANGED <<pipeline_vars, rest_vars>>

LoadTick ==
  /\ now < MaxLoadTime
  /\ 0 < nCalls /\ nCalls < MaxLoadCalls
  /\ now' = now + 1
  /\ UNCHANGED <<business_type, metrics, detection_history, last_update,
                 object_tracking, performance_history, pc, frame, sw, nCalls,
                 sinceSwitch, last>>
  /\ UNCHANGED <<pipeline_vars, rest_vars>>

\* process_detection of a detection of the class of the stream
LoadDetection(det) ==
  /\ nCalls < MaxLoadCalls
  /\ detection_history # <<>> =>
       det.class_name = detection_history[1].data.class_name
  /\ Returned(process_detection(Fields, det, now), "process", det)
  /\ nCalls' = nCalls + 1
  /\ sinceSwitch' = sinceSwitch + 1
  /\ UNCHANGED <<now, pc, frame, sw>>
  /\ UNCHANGED <<pipeline_vars, rest_vars>>

\* what a call of get_business_insights that gave r leaves to observe
InsightsObserved(r) ==
  [Observe(IF r.raised THEN "raised" ELSE "insights", NoDet, now, Fields)
     EXCEPT !.insights = r.recommendations]

\* GET /get_business_insights
GetBusinessInsights ==
  /\ last' = InsightsObserved(get_business_insights(Fields))
  /\ UNCHANGED <<now, business_type, metrics, detection_history, last_update,
                 object_tracking, performance_history, pc, frame, sw, nCalls,
                 sinceSwitch>>
  /\ UNCHANGED <<pipeline_vars, rest_vars>>

InsightNext ==
  \/ LoadTick
  \/ \E bt \in TypeInputs : InsightSwitch(bt)
  \/ \E det \in LoadDetections : LoadDetection(det)
  \/ GetBusinessInsights

InsightSpec == Init /\ [][InsightNext]_vars

\* ------------------------------------------------- more calls than the caps
\* CapSpec: process_detection is called more often than the lists it
\* appends to may hold.  A call takes d seconds up to its clock read for
\* the processing time.

\* the statements after _track_object of a call that began at t and read
\* t + d as the time of its processing time
AfterTrackTook(s, det, t, d) ==
  TrendStmt(PeakStmt(PerfStmt(DispatchStmt(PruneStmt(
    AppendStmt(s, det, t, s.ret), t), det, t), t, t + d), t), det, t)

process_detection_took(s, det, t, d) ==
  AfterTrackTook(TrackStmt(s, det, t), det, t, d)

CapDetections == {Detection("person", <<0, 0, 4, 2>>)}

CapDetection(det, d) ==
  /\ nCalls < MaxCapCalls
  /\ now + d <= MaxCapTime
  /\ Returned(process_detection_took(Fields, det, now, d), "process", det)
  /\ now' = now + d
  /\ nCalls' = nCalls + 1
  /\ sinceSwitch' = sinceSwitch + 1
  /\ UNCHANGED <<pc, frame, sw>>
  /\ UNCHANGED <<pipeline_vars, rest_vars>>

CapNext == \E det \in CapDetections, d \in {0, 1} : CapDetection(det, d)

CapSpec == Init /\ [][CapNext]_vars

\* ------------------------------------- the worker and a request, interleaved
\* The worker thread runs process_detection one statement at a time; a
\* request thread runs set_business_type one statement at a time.  Nothing
\* in the code orders the two.

\* the fields as the worker sees them, obj_id being its local
WorkerFields == [Fields EXCEPT !.ret = frame.obj_id]

\* the worker moves on to statement next, or leaves the call when the
\* statement raised or was the last one
WorkerStep(s, next) ==
  /\ Install(s)
  /\ frame' = IF s.raised \/ next = "idle" THEN NoFrame
               ELSE [frame EXCEPT !.obj_id = s.ret]
  /\ pc' = IF s.raised THEN "idle" ELSE next
  /\ last' = IF s.raised \/ next = "idle"
              THEN Observe(IF s.raised THEN "raised" ELSE "process",
                           frame.det, frame.current_time, s)
              ELSE last
  /\ UNCHANGED <<now, sw, nCalls, sinceSwitch>>
  /\ UNCHANGED <<pipeline_vars, rest_vars>>

\* the clock, running while a call remains or is in progress
ConcTick ==
  /\ now < MaxTime
  /\ nCalls < MaxConcCalls \/ pc # "idle" \/ sw # "idle"
  /\ now' = now + 1
  /\ UNCHANGED <<business_type, metrics, detection_history, last_update,
                 object_tracking, performance_history, pc, frame, sw, nCalls,
                 sinceSwitch, last>>
  /\ UNCHANGED <<pipeline_vars, rest_vars>>

\* start_time = time.time(); current_time = time.time()
WorkerEnter(det) ==
  /\ pc = "idle"
  /\ nCalls < MaxConcCalls
  /\ pc' = "track"
  /\ frame' = [det |-> det, start_time |-> now, current_time |-> now,
               obj_id |-> None]
  /\ nCalls' = nCalls + 1
  /\ sinceSwitch' = sinceSwitch + 1
  /\ UNCHANGED <<now, business_type, metrics, detection_history, last_update,
                 object_tracking, performance_history, sw, last>>
  /\ UNCHANGED <<pipeline_vars, rest_vars>>

WorkerTrack ==
  /\ pc = "track"
  /\ WorkerStep(TrackStmt(WorkerFields, frame.det, now), "append")

WorkerAppend ==
  /\ pc = "append"
  /\ WorkerStep(AppendStmt(WorkerFields, frame.det, frame.current_time,
                           frame.obj_id), "prune")

WorkerPrune ==
  /\ pc = "prune"
  /\ WorkerStep(PruneStmt(WorkerFields, frame.current_time), "dispatch")

WorkerDispatch ==
  /\ pc = "dispatch"
  /\ WorkerStep(DispatchStmt(WorkerFields, frame.det, now), "perf")

WorkerPerf ==
  /\ pc = "perf"
  /\ WorkerStep(PerfStmt(WorkerFields, frame.start_time, now), "peak")

WorkerPeak ==
  /\ pc = "peak"
  /\ WorkerStep(PeakStmt(WorkerFields, frame.current_time), "trend")

WorkerTrend ==
  /\ pc = "trend"
  /\ WorkerStep(TrendStmt(WorkerFields, frame.det, frame.current_time), "idle")

\* video_processor.business_analytics.business_type = business_type
RequestAssign(bt) ==
  /\ sw = "idle"
  /\ nCalls < MaxConcCalls
  /\ bt # ""
  /\ business_type' = bt
  /\ sw' = "assigned"
  /\ nCalls' = nCalls + 1
  /\ sinceSwitch' = 0
  /\ UNCHANGED <<now, metrics, detection_history, last_update,
                 object_tracking, performance_history, pc, frame, last>>
  /\ UNCHANGED <<pipeline_vars, rest_vars>>

\* video_processor.business_analytics.reset_metrics()
RequestReset ==
  /\ sw = "assigned"
  /\ Install(reset_metrics(Fields, now))
  /\ sw' = "idle"
  /\ UNCHANGED <<now, pc, frame, nCalls, sinceSwitch, last>>
  /\ UNCHANGED <<pipeline_vars, rest_vars>>

RequestReject(bt) ==
  /\ sw = "idle"
  /\ bt = ""
  /\ UNCHANGED vars

ConcNext ==
  \/ ConcTick
  \/ \E det \in Detections : WorkerEnter(det)
  \/ WorkerTrack
  \/ WorkerAppend
  \/ WorkerPrune
  \/ WorkerDispatch
  \/ WorkerPerf
  \/ WorkerPeak
  \/ WorkerTrend
  \/ \E bt \in TypeInputs : RequestAssign(bt)
  \/ RequestReset
  \/ \E bt \in TypeInputs : RequestReject(bt)

ConcSpec == Init /\ [][ConcNext]_vars

\* ------------------------------------------------------ the video pipeline
\* VideoProcessor: the worker threads (_process_frames_thread), the
\* generate_frames loops that feed the queue, and the request thread inside
\* stop_detection or connect.  Each action is one step of one thread;
\* nothing in the code orders the threads.  time.sleep is no step of its
\* own, and join(timeout=1.0) returns whether or not the thread has ended.

Threads == 1 .. Len(workers)

AtWorker(w, p) == w \in Threads /\ workers[w].pc = p

WorkerGoes(w, p) == workers' = [workers EXCEPT ![w].pc = p]

\* while self.is_running:
ThreadLoop(w) ==
  /\ AtWorker(w, "while")
  /\ WorkerGoes(w, IF is_running THEN "empty" ELSE "exited")
  /\ UNCHANGED <<is_running, cap, current_frame, frame_queue,
                 processing_thread, feeds, ctl, handles, nReads>>
  /\ UNCHANGED <<analytics_vars, rest_vars>>

\* if not self.frame_queue.empty(): ... else time.sleep(0.001)
ThreadEmpty(w) ==
  /\ AtWorker(w, "empty")
  /\ WorkerGoes(w, IF frame_queue # <<>> THEN "get" ELSE "while")
  /\ UNCHANGED <<is_running, cap, current_frame, frame_queue,
                 processing_thread, feeds, ctl, handles, nReads>>
  /\ UNCHANGED <<analytics_vars, rest_vars>>

\* frame = self.frame_queue.get(), which waits while the queue is empty
ThreadGet(w) ==
  /\ AtWorker(w, "get")
  /\ frame_queue # <<>>
  /\ workers' = [workers EXCEPT ![w] = [pc |-> "decide",
                                        frame |-> Head(frame_queue)]]
  /\ frame_queue' = Tail(frame_queue)
  /\ UNCHANGED <<is_running, cap, current_frame, processing_thread, feeds,
                 ctl, handles, nReads>>
  /\ UNCHANGED <<analytics_vars, rest_vars>>

\* skip_frames == 0: processed_frame = self.process_frame(frame), which
\* returns the frame; self.current_frame = processed_frame. The detections
\* process_frame hands to the analytics are the calls of Spec and ConcSpec
ThreadProcess(w) ==
  /\ AtWorker(w, "decide")
  /\ WorkerGoes(w, "task_done")
  /\ current_frame' = workers[w].frame
  /\ UNCHANGED <<is_running, cap, frame_queue, processing_thread, feeds,
                 ctl, handles, nReads>>
  /\ UNCHANGED <<analytics_vars, rest_vars>>

\* skip_frames > 0: the frame is dropped
ThreadSkip(w) ==
  /\ AtWorker(w, "decide")
  /\ WorkerGoes(w, "task_done")
  /\ UNCHANGED <<is_running, cap, current_frame, frame_queue,
                 processing_thread, feeds, ctl, handles, nReads>>
  /\ UNCHANGED <<analytics_vars, rest_vars>>

\* self.frame_queue.task_done(); time.sleep(0.001)
ThreadTaskDone(w) ==
  /\ AtWorker(w, "task_done")
  /\ WorkerGoes(w, "while")
  /\ UNCHANGED <<is_running, cap, current_frame, frame_queue,
                 processing_thread, feeds, ctl, handles, nReads>>
  /\ UNCHANGED <<analytics_vars, rest_vars>>

\* the skip count without the threshold on the delay
SkipFramesAnyDelay(delay) ==
  IF delay > 0
  THEN Min2(max_skip_frames, delay \div frame_interval)
  ELSE 0

\* skip_frames as _process_frames_thread computes it from the delay (ms):
\* min(self.max_skip_frames, int(delay / self.frame_interval)) if
\* delay > 0.1, else 0
SkipFrames(delay) ==
  IF delay > DelayLimit
  THEN Min2(max_skip_frames, delay \div frame_interval)
  ELSE 0

\* process_frame: detection runs unless the latest detection is less than
\* detection_interval old; the time of a detection that runs is recorded
Throttled(t, since) == t - since < detection_interval

\* one cycle of _process_frames_thread on the frame it took, by the clock:
\* processing_delay = current_time - last_frame_time - frame_interval gives
\* skip_frames; with skip_frames = 0 the frame goes through process_frame,
\* becomes current_frame and last_frame_time = current_time; otherwise the
\* frame is dropped and nothing else is written
ThreadDecide(w) ==
  /\ AtWorker(w, "decide")
  /\ WorkerGoes(w, "task_done")
  /\ skip_frames' = SkipFrames(clock - last_frame_time - frame_interval)
  /\ IF skip_frames' = 0
     THEN /\ current_frame' = workers[w].frame
          /\ last_frame_time' = clock
          /\ last_detection_time' =
               IF Throttled(clock, last_detection_time)
               THEN last_detection_time ELSE clock
          /\ skip_run' = 0
     ELSE /\ skip_run' = Min2(skip_run + 1, max_skip_frames + 1)
          /\ UNCHANGED <<current_frame, last_frame_time, last_detection_time>>
  /\ UNCHANGED <<is_running, cap, frame_queue, processing_thread, feeds,
                 ctl, handles, nReads>>
  /\ UNCHANGED <<clock, faults, origin>>
  /\ UNCHANGED <<analytics_vars, logger_vars, serve_vars, frame_vars>>

\* an exception in the loop body ends the thread
Dies == "exited"

\* except Exception: the error is logged, time.sleep(1), and the loop
\* goes on with its next iteration
Recovers == "while"

\* an exception inside the try block while the worker holds a frame
\* (task_done is not reached)
ThreadRaises(w, limit) ==
  /\ AtWorker(w, "decide")
  /\ faults < limit
  /\ faults' = faults + 1
  /\ WorkerGoes(w, Recovers)
  /\ UNCHANGED <<is_running, cap, current_frame, frame_queue,
                 processing_thread, feeds, ctl, handles, nReads>>
  /\ UNCHANGED <<clock, last_frame_time, last_detection_time, skip_frames,
                 skip_run, origin>>
  /\ UNCHANGED <<analytics_vars, logger_vars, serve_vars, frame_vars>>

\* the worker's loop with the skip decision taken by the clock
TimedThreadStep(w) ==
  \/ ThreadLoop(w)
  \/ ThreadEmpty(w)
  \/ ThreadGet(w)
  \/ ThreadDecide(w)
  \/ ThreadTaskDone(w)

ThreadStep(w) ==
  \/ ThreadLoop(w)
  \/ ThreadEmpty(w)
  \/ ThreadGet(w)
  \/ ThreadProcess(w)
  \/ ThreadSkip(w)
  \/ ThreadTaskDone(w)

\* --- generate_frames (video_processor.py), the loop of one /video_feed client
AtFeed(g, p) == feeds[g].pc = p

FeedGoes(g, p) == feeds' = [feeds EXCEPT ![g].pc = p]

\* if self.is_running and self.cap is not None: ... else the waiting screen
\* is the frame of this iteration
FeedCheck(g) ==
  /\ AtFeed(g, "check")
  /\ FeedGoes(g, IF is_running /\ cap # NoCap THEN "read" ELSE "yield")
  /\ UNCHANGED <<is_running, cap, current_frame, frame_queue,
                 processing_thread, workers, ctl, handles, nReads>>
  /\ UNCHANGED <<analytics_vars, rest_vars>>

\* the handle self.cap.read() is called on can deliver a frame
CanRead == cap # NoCap /\ handles[cap] = "open"

\* ret, frame = self.cap.read() gives the next frame of the source
FeedRead(g, limit) ==
  /\ AtFeed(g, "read")
  /\ CanRead
  /\ nReads < limit
  /\ nReads' = nReads + 1
  /\ feeds' = [feeds EXCEPT ![g].pc = "full", ![g].frame = nReads + 1]
  /\ origin' = Append(origin, cap)
  /\ UNCHANGED <<is_running, cap, current_frame, frame_queue,
                 processing_thread, workers, ctl, handles>>
  /\ UNCHANGED <<clock, last_frame_time, last_detection_time, skip_frames,
                 skip_run, faults>>
  /\ UNCHANGED <<analytics_vars, logger_vars, serve_vars, frame_vars>>

\* self.cap.read() gives no frame (a bad read, a released handle, the end
\* of a file), or self.cap is None by now and the attribute error is
\* caught: the local frame is None, time.sleep(1) and the next iteration,
\* nothing is yielded
FeedReadFails(g) ==
  /\ AtFeed(g, "read")
  /\ feeds' = [feeds EXCEPT ![g].pc = "check", ![g].frame = NoImage]
  /\ UNCHANGED <<is_running, cap, current_frame, frame_queue,
                 processing_thread, workers, ctl, handles, nReads>>
  /\ UNCHANGED <<analytics_vars, rest_vars>>

\* if self.frame_queue.full():
FeedFull(g) ==
  /\ AtFeed(g, "full")
  /\ FeedGoes(g, IF Len(frame_queue) >= QueueMax THEN "evict" ELSE "put")
  /\ UNCHANGED <<is_running, cap, current_frame, frame_queue,
                 processing_thread, workers, ctl, handles, nReads>>
  /\ UNCHANGED <<analytics_vars, rest_vars>>

\* a get_nowait that takes the frame put last
EvictNewest(queue) ==
  IF queue = <<>> THEN queue ELSE SubSeq(queue, 1, Len(queue) - 1)

\* get_nowait(): the frame at the head; queue.Empty is swallowed
EvictOldest(queue) == IF queue = <<>> THEN queue ELSE Tail(queue)

FeedEvict(g) ==
  /\ AtFeed(g, "evict")
  /\ FeedGoes(g, "put")
  /\ frame_queue' = EvictOldest(frame_queue)
  /\ UNCHANGED <<is_running, cap, current_frame, processing_thread, workers,
                 ctl, handles, nReads>>
  /\ UNCHANGED <<analytics_vars, rest_vars>>

\* self.frame_queue.put(frame), which waits while the queue is full
FeedPut(g) ==
  /\ AtFeed(g, "put")
  /\ Len(frame_queue) < QueueMax
  /\ FeedGoes(g, "show")
  /\ frame_queue' = Append(frame_queue, feeds[g].frame)
  /\ UNCHANGED <<is_running, cap, current_frame, processing_thread, workers,
                 ctl, handles, nReads>>
  /\ UNCHANGED <<analytics_vars, rest_vars>>

\* if self.current_frame is not None: frame = self.current_frame
FeedShow(g) ==
  /\ AtFeed(g, "show")
  /\ feeds' = [feeds EXCEPT ![g].pc = "count",
                            ![g].seen = IF current_frame # NoImage
                                        THEN current_frame ELSE @]
  /\ UNCHANGED <<is_running, cap, current_frame, frame_queue,
                 processing_thread, workers, ctl, handles, nReads>>
  /\ UNCHANGED <<analytics_vars, rest_vars>>

\* the time of the FPS counters: current_time - self.last_frame_time >= 1.0
Elapsed(t, since) == t - since >= 1000

\* self.frame_count += 1; after a second the FPS is logged and
\* self.last_frame_time = current_time
FeedCount(g) ==
  /\ AtFeed(g, "count")
  /\ FeedGoes(g, "yield")
  /\ last_frame_time' = IF Elapsed(clock, last_frame_time) THEN clock
                        ELSE last_frame_time
  /\ UNCHANGED <<is_running, cap, current_frame, frame_queue,
                 processing_thread, workers, ctl, handles, nReads>>
  /\ UNCHANGED <<clock, last_detection_time, skip_frames, skip_run, faults,
                 origin>>
  /\ UNCHANGED <<analytics_vars, logger_vars, serve_vars, frame_vars>>

\* cv2.imencode, the yield of the encoded frame to the client, and
\* time.sleep(self.frame_interval)
FeedYield(g) ==
  /\ AtFeed(g, "yield")
  /\ FeedGoes(g, "check")
  /\ UNCHANGED <<is_running, cap, current_frame, frame_queue,
                 processing_thread, workers, ctl, handles, nReads>>
  /\ UNCHANGED <<analytics_vars, rest_vars>>

FeedStep(g, limit) ==
  \/ FeedCheck(g)
  \/ FeedRead(g, limit)
  \/ FeedReadFails(g)
  \/ FeedFull(g)
  \/ FeedEvict(g)
  \/ FeedPut(g)
  \/ FeedShow(g)
  \/ FeedCount(g)
  \/ FeedYield(g)

\* --- stop_detection, called by disconnect and at the start of connect
AtCtl(p) == ctl.pc = p

CtlGoes(p) == ctl' = [ctl EXCEPT !.pc = p]

\* another control request may be made in this behaviour
MayRequest(limit) == ctl.connects + ctl.starts + ctl.stops < limit

\* the request thread returns to the caller; result keeps what the latest
\* call that has returned gave
CtlReturns(result) ==
  ctl' = [ctl EXCEPT !.op = "idle", !.pc = "idle", !.result = result]

\* POST /stop_detection: disconnect() calls stop_detection()
CallStop(limit) ==
  /\ ctl.op = "idle"
  /\ ctl.stops < MaxStops
  /\ MayRequest(limit)
  /\ ctl' = [ctl EXCEPT !.op = "stop", !.pc = "flag", !.source = "",
                        !.stops = @ + 1]
  /\ UNCHANGED <<is_running, cap, current_frame, frame_queue,
                 processing_thread, workers, feeds, handles, nReads>>
  /\ UNCHANGED <<analytics_vars, rest_vars>>

\* self.is_running = False
StopFlag ==
  /\ AtCtl("flag")
  /\ is_running' = FALSE
  /\ CtlGoes("join")
  /\ UNCHANGED <<cap, current_frame, frame_queue, processing_thread, workers,
                 feeds, handles, nReads>>
  /\ UNCHANGED <<analytics_vars, rest_vars>>

\* if self.processing_thread: self.processing_thread.join(timeout=1.0):
\* the thread has ended, or one second has passed
StopJoin ==
  /\ AtCtl("join")
  /\ CtlGoes("release")
  /\ UNCHANGED <<is_running, cap, current_frame, frame_queue,
                 processing_thread, workers, feeds, handles, nReads>>
  /\ UNCHANGED <<analytics_vars, rest_vars>>

\* cap.release() of the handle h, if there is one
Released(hs, h) == IF h = NoCap THEN hs ELSE [hs EXCEPT ![h] = "released"]

\* if self.cap: self.cap.release(); self.cap = None; current_frame = None
StopRelease ==
  /\ AtCtl("release")
  /\ handles' = Released(handles, cap)
  /\ cap' = NoCap
  /\ current_frame' = NoImage
  /\ CtlGoes("drain")
  /\ UNCHANGED <<is_running, frame_queue, processing_thread, workers, feeds,
                 nReads>>
  /\ UNCHANGED <<analytics_vars, rest_vars>>

\* while not self.frame_queue.empty(): ...; after the loop stop_detection
\* returns, to the caller of disconnect or into connect
StopDrain ==
  /\ AtCtl("drain")
  /\ IF frame_queue # <<>> THEN CtlGoes("drain_get")
     ELSE IF ctl.op = "connect" THEN CtlGoes("open")
     ELSE IF ctl.op = "start" THEN CtlGoes("try")
     ELSE CtlReturns("stopped")
  /\ UNCHANGED <<is_running, cap, current_frame, frame_queue,
                 processing_thread, workers, feeds, handles, nReads>>
  /\ UNCHANGED <<analytics_vars, rest_vars>>

\* self.frame_queue.get(), which waits while the queue is empty
StopDrainGet ==
  /\ AtCtl("drain_get")
  /\ frame_queue # <<>>
  /\ frame_queue' = Tail(frame_queue)
  /\ CtlGoes("drain")
  /\ UNCHANGED <<is_running, cap, current_frame, processing_thread, workers,
                 feeds, handles, nReads>>
  /\ UNCHANGED <<analytics_vars, rest_vars>>

StopStep ==
  \/ StopFlag
  \/ StopJoin
  \/ StopRelease
  \/ StopDrain
  \/ StopDrainGet

\* --- connect (video_processor_new.py)
\* a source that opens and delivers frames, one that does not open, one
\* that opens and delivers no frame, and one that refuses the first open
\* of a call and then behaves
Sources == {"ok", "unopened", "noframe", "transient"}

\* cv2.VideoCapture(source).isOpened(), at the attempt after `attempt` ones
Opens(source, attempt) ==
  source \in {"ok", "noframe"} \/ (source = "transient" /\ attempt > 0)

\* POST /start_detection or /upload: connect(source) begins with
\* stop_detection()
CallConnect(source, limit) ==
  /\ ctl.op = "idle"
  /\ ctl.connects < MaxConnects
  /\ MayRequest(limit)
  /\ ctl' = [ctl EXCEPT !.op = "connect", !.pc = "flag", !.source = source,
                        !.connects = @ + 1, !.attempt = 0, !.slept = 0]
  /\ UNCHANGED <<is_running, cap, current_frame, frame_queue,
                 processing_thread, workers, feeds, handles, nReads>>
  /\ UNCHANGED <<analytics_vars, rest_vars>>

\* self.cap = cv2.VideoCapture(source)
ConnectOpen ==
  /\ AtCtl("open")
  /\ handles' = Append(handles,
                       IF Opens(ctl.source, ctl.attempt) THEN "open"
                       ELSE "closed")
  /\ cap' = Len(handles) + 1
  /\ ctl' = [ctl EXCEPT !.pc = "verify", !.attempt = @ + 1]
  /\ UNCHANGED <<is_running, current_frame, frame_queue, processing_thread,
                 workers, feeds, nReads>>
  /\ UNCHANGED <<analytics_vars, rest_vars>>

\* isOpened() alone, the first frame not looked at
SourceOpened == CanRead

\* isOpened() and the read of the first frame both succeed
SourceVerified == CanRead /\ ctl.source \in {"ok", "transient"}

\* if not self.cap.isOpened(): raise ...; ret, frame = self.cap.read();
\* if not ret or not self._is_valid_frame(frame): raise ...
ConnectVerify ==
  /\ AtCtl("verify")
  /\ CtlGoes(IF SourceVerified THEN "run" ELSE "fail")
  /\ UNCHANGED <<is_running, cap, current_frame, frame_queue,
                 processing_thread, workers, feeds, handles, nReads>>
  /\ UNCHANGED <<analytics_vars, rest_vars>>

\* self.is_running = True
ConnectRun ==
  /\ AtCtl("run")
  /\ is_running' = TRUE
  /\ CtlGoes("thread")
  /\ UNCHANGED <<cap, current_frame, frame_queue, processing_thread, workers,
                 feeds, handles, nReads>>
  /\ UNCHANGED <<analytics_vars, rest_vars>>

\* self.processing_thread = threading.Thread(...); start(); return True
ConnectThread ==
  /\ AtCtl("thread")
  /\ workers' = Append(workers, [pc |-> "while", frame |-> NoImage])
  /\ processing_thread' = Len(workers) + 1
  /\ CtlReturns("connected")
  /\ UNCHANGED <<is_running, cap, current_frame, frame_queue, feeds, handles,
                 nReads>>
  /\ UNCHANGED <<analytics_vars, rest_vars>>

\* except: if self.cap: self.cap.release(); self.cap = None; return False
ConnectFail ==
  /\ AtCtl("fail")
  /\ handles' = Released(handles, cap)
  /\ cap' = NoCap
  /\ CtlReturns("failed")
  /\ UNCHANGED <<is_running, current_frame, frame_queue, processing_thread,
                 workers, feeds, nReads>>
  /\ UNCHANGED <<analytics_vars, rest_vars>>

ConnectStep ==
  \/ ConnectOpen
  \/ ConnectVerify
  \/ ConnectRun
  \/ ConnectThread
  \/ ConnectFail

\* --- start_stream_detection and _connect_to_stream (video_processor.py)
\* what one attempt on a stream meets: the capture does not open, or it
\* opens and delivers its first valid frame so many seconds later
AttemptOutcomes == {Unopened, 0, ReadTimeout - 1, ReadTimeout}

\* a stream, as what each of the attempts made on it meets
Streams == [1 .. max_retries -> AttemptOutcomes]

\* start_stream_detection(stream_url) begins with stop_detection()
CallStart(stream, limit) ==
  /\ ctl.op = "idle"
  /\ ctl.starts < MaxStarts
  /\ MayRequest(limit)
  /\ ctl' = [ctl EXCEPT !.op = "start", !.pc = "flag", !.stream = stream,
                        !.starts = @ + 1, !.attempt = 0, !.trial = NoCap,
                        !.waited = 0, !.slept = 0]
  /\ UNCHANGED <<is_running, cap, current_frame, frame_queue,
                 processing_thread, workers, feeds, handles, nReads>>
  /\ UNCHANGED <<analytics_vars, rest_vars>>

\* for attempt in range(max_retries): cap = cv2.VideoCapture(url, ...)
StreamOpen ==
  /\ AtCtl("try")
  /\ handles' = Append(handles,
                       IF ctl.stream[ctl.attempt + 1] = Unopened
                       THEN "closed" ELSE "open")
  /\ ctl' = [ctl EXCEPT !.pc = "opened", !.attempt = @ + 1,
                        !.trial = Len(handles) + 1]
  /\ UNCHANGED <<is_running, cap, current_frame, frame_queue,
                 processing_thread, workers, feeds, nReads>>
  /\ UNCHANGED <<analytics_vars, rest_vars>>

\* if not cap.isOpened(): raise ...; start_time = time.time()
StreamOpened ==
  /\ AtCtl("opened")
  /\ ctl' = [ctl EXCEPT !.pc = IF handles[ctl.trial] = "open"
                               THEN "read" ELSE "except",
                        !.waited = 0]
  /\ UNCHANGED <<is_running, cap, current_frame, frame_queue,
                 processing_thread, workers, feeds, handles, nReads>>
  /\ UNCHANGED <<analytics_vars, rest_vars>>

\* a wait that goes on through the second the timeout ends with
InTimeInclusive(waited) == waited <= ReadTimeout

\* while time.time() - start_time < 5
InTime(waited) == waited < ReadTimeout

\* ret and frame is not None and frame.size > 0, at the attempt under way
FrameRead(stream, attempt, waited) == stream[attempt] <= waited

\* one round of the read loop: the timeout raises, a valid frame returns
\* the capture, or time.sleep(0.1) (rounds of one second make one step)
StreamRead ==
  /\ AtCtl("read")
  /\ ctl' = IF ~InTime(ctl.waited) THEN [ctl EXCEPT !.pc = "except"]
            ELSE IF FrameRead(ctl.stream, ctl.attempt, ctl.waited)
            THEN [ctl EXCEPT !.pc = "assign"]
            ELSE [ctl EXCEPT !.waited = @ + 1]
  /\ UNCHANGED <<is_running, cap, current_frame, frame_queue,
                 processing_thread, workers, feeds, handles, nReads>>
  /\ UNCHANGED <<analytics_vars, rest_vars>>

\* except: if attempt < max_retries - 1: time.sleep(retry_delay); continue
\* and else raise Exception("Falha ao conectar ...")
StreamExcept ==
  /\ AtCtl("except")
  /\ ctl' = IF ctl.attempt - 1 < max_retries - 1
            THEN [ctl EXCEPT !.pc = "try", !.slept = @ + retry_delay]
            ELSE [ctl EXCEPT !.pc = "start_fail"]
  /\ UNCHANGED <<is_running, cap, current_frame, frame_queue,
                 processing_thread, workers, feeds, handles, nReads>>
  /\ UNCHANGED <<analytics_vars, rest_vars>>

\* self.cap = self._connect_to_stream(stream_url); the flag and the thread
\* follow as in connect
StartAssign ==
  /\ AtCtl("assign")
  /\ cap' = ctl.trial
  /\ CtlGoes("run")
  /\ UNCHANGED <<is_running, current_frame, frame_queue, processing_thread,
                 workers, feeds, handles, nReads>>
  /\ UNCHANGED <<analytics_vars, rest_vars>>

\* except: if self.cap: self.cap.release(); self.cap = None; raise
StartFail ==
  /\ AtCtl("start_fail")
  /\ handles' = Released(handles, cap)
  /\ cap' = NoCap
  /\ CtlReturns("raised")
  /\ UNCHANGED <<is_running, current_frame, frame_queue, processing_thread,
                 workers, feeds, nReads>>
  /\ UNCHANGED <<analytics_vars, rest_vars>>

StartStep ==
  \/ StreamOpen
  \/ StreamOpened
  \/ StreamRead
  \/ StreamExcept
  \/ StartAssign
  \/ ConnectRun
  \/ ConnectThread
  \/ StartFail

\* the steps of generate_frames while fewer frames than the queue holds
\* have been delivered: the queue is never found full
FeedStepBelowFull(g, limit) ==
  \/ FeedCheck(g)
  \/ FeedRead(g, limit)
  \/ FeedReadFails(g)
  \/ FeedFull(g)
  \/ FeedPut(g)
  \/ FeedShow(g)
  \/ FeedCount(g)
  \/ FeedYield(g)

\* PipeSpec: connect and disconnect requests, one at a time, with the
\* worker threads and one /video_feed client running beside them
PipeNext ==
  \/ \E w \in Threads : ThreadStep(w)
  \/ FeedStepBelowFull("viewer1", MaxPipeReads)
  \/ CallStop(MaxPipeRequests)
  \/ StopStep
  \/ \E source \in Sources : CallConnect(source, MaxPipeRequests)
  \/ ConnectStep

PipeSpec == Init /\ [][PipeNext]_vars

\* StopSpec: as PipeSpec, with room for a connect and two disconnects
StopNext ==
  \/ \E w \in Threads : ThreadStep(w)
  \/ FeedStepBelowFull("viewer1", MaxPipeReads)
  \/ CallStop(MaxRequests)
  \/ StopStep
  \/ \E source \in Sources : CallConnect(source, MaxRequests)
  \/ ConnectStep

StopSpec == Init /\ [][StopNext]_vars

\* StartSpec: start_stream_detection and disconnect requests, one at a
\* time, with the worker threads and one /video_feed client beside them
StartNext ==
  \/ \E w \in Threads : ThreadStep(w)
  \/ FeedStepBelowFull("viewer1", MaxPipeReads)
  \/ CallStop(MaxRequests)
  \/ StopStep
  \/ \E stream \in Streams : CallStart(stream, MaxRequests)
  \/ StartStep

StartSpec == Init /\ [][StartNext]_vars

\* FeedSpec: a stream is running (connect has returned True on a new
\* controller) and a /video_feed client feeds the queue while the worker
\* empties it
RunningPipeline ==
  /\ is_running = TRUE
  /\ cap = 1
  /\ current_frame = NoImage
  /\ frame_queue = <<>>
  /\ processing_thread = 1
  /\ workers = <<[pc |-> "while", frame |-> NoImage]>>
  /\ feeds = [g \in Viewers |-> IdleFeed]
  /\ ctl = [IdleCtl EXCEPT !.source = "ok", !.result = "connected",
                           !.connects = 1]
  /\ handles = <<"open">>
  /\ nReads = 0

FeedInit == AnalyticsInit /\ RunningPipeline /\ RestInit

FeedNext ==
  \/ \E w \in Threads : ThreadStep(w)
  \/ FeedStep("viewer1", MaxFeedReads)

FeedSpec == FeedInit /\ [][FeedNext]_vars

\* LoopSpec: the running stream of FeedSpec with exceptions in the worker
\* and a disconnect request
LoopNext ==
  \/ \E w \in Threads : ThreadStep(w)
  \/ \E w \in Threads : ThreadRaises(w, MaxFaults)
  \/ FeedStepBelowFull("viewer1", MaxLoopReads)
  \/ CallStop(MaxPipeRequests)
  \/ StopStep

LoopSpec == FeedInit /\ [][LoopNext]_vars

\* EofSpec: the running stream of FeedSpec on a source that ends: after
\* its last frame every read fails.  Each thread keeps taking steps
EofNext ==
  \/ \E w \in Threads : ThreadStep(w)
  \/ FeedStepBelowFull("viewer1", MaxLoopReads)

EofSpec ==
  /\ FeedInit
  /\ [][EofNext]_vars
  /\ WF_vars(\E w \in Threads : ThreadStep(w))
  /\ WF_vars(FeedStepBelowFull("viewer1", MaxLoopReads))

\* time passes between two steps of the threads
Waits == {150, 600}

\* --- generate_frames (video_processor_new.py): every /video_feed client
\* runs the loop on a thread of its own and calls process_frame itself; no
\* frame is put on the queue, so the worker thread finds it empty
AtServe(g, p) == serve[g].pc = p

ServeGoes(g, p) == serve' = [serve EXCEPT ![g].pc = p]

\* if not self.is_running or self.cap is None: the waiting screen is the
\* frame; else self.cap.read()
ServeCheck(g) ==
  /\ AtServe(g, "check")
  /\ ServeGoes(g, IF is_running /\ cap # NoCap THEN "read" ELSE "enter")
  /\ UNCHANGED <<analytics_vars, pipeline_vars, timing_vars, logger_vars,
                 invoked, frame_vars>>

\* ret, frame = self.cap.read() gives the next frame of the source
ServeRead(g, limit) ==
  /\ AtServe(g, "read")
  /\ CanRead
  /\ nReads < limit
  /\ nReads' = nReads + 1
  /\ origin' = Append(origin, cap)
  /\ ServeGoes(g, "enter")
  /\ UNCHANGED <<is_running, cap, current_frame, frame_queue,
                 processing_thread, workers, feeds, ctl, handles>>
  /\ UNCHANGED <<clock, last_frame_time, last_detection_time, skip_frames,
                 skip_run, faults>>
  /\ UNCHANGED <<analytics_vars, logger_vars, invoked, frame_vars>>

\* the read gives no frame: time.sleep(1); continue, nothing is yielded
ServeReadFails(g) ==
  /\ AtServe(g, "read")
  /\ ServeGoes(g, "check")
  /\ UNCHANGED <<analytics_vars, pipeline_vars, timing_vars, logger_vars,
                 invoked, frame_vars>>

\* process_frame: current_time = time.time()
ServeEnter(g) ==
  /\ AtServe(g, "enter")
  /\ serve' = [serve EXCEPT ![g] = [pc |-> "throttle", t |-> clock]]
  /\ UNCHANGED <<analytics_vars, pipeline_vars, timing_vars, logger_vars,
                 invoked, frame_vars>>

\* if current_time - self.last_detection_time < self.detection_interval:
\* return frame
ServeThrottle(g) ==
  /\ AtServe(g, "throttle")
  /\ ServeGoes(g, IF Throttled(serve[g].t, last_detection_time)
                  THEN "yield" ELSE "stamp")
  /\ UNCHANGED <<analytics_vars, pipeline_vars, timing_vars, logger_vars,
                 invoked, frame_vars>>

\* self.last_detection_time = current_time
ServeStamp(g) ==
  /\ AtServe(g, "stamp")
  /\ ServeGoes(g, "detect")
  /\ last_detection_time' = serve[g].t
  /\ UNCHANGED <<clock, last_frame_time, skip_frames, skip_run, faults,
                 origin>>
  /\ UNCHANGED <<analytics_vars, pipeline_vars, logger_vars, invoked, frame_vars>>

\* results = self.model(frame, conf=0.3): the detector is invoked; it
\* finds an object of an allowed class, or none
ServeDetect(g, found) ==
  /\ AtServe(g, "detect")
  /\ ServeGoes(g, IF found THEN "analytics" ELSE "yield")
  /\ invoked' = IF invoked = <<>> THEN <<clock>>
                ELSE <<invoked[Len(invoked)], clock>>
  /\ UNCHANGED <<analytics_vars, pipeline_vars, timing_vars, logger_vars,
                 frame_vars>>

\* self.business_analytics.process_detection(detections[-1]) is in
\* progress on this thread while it is at "analytics"; the steps inside
\* the call are those of ConcSpec
ServeAnalytics(g) ==
  /\ AtServe(g, "analytics")
  /\ ServeGoes(g, "yield")
  /\ UNCHANGED <<analytics_vars, pipeline_vars, timing_vars, logger_vars,
                 invoked, frame_vars>>

\* cv2.imencode, the yield to the client, time.sleep(self.frame_interval)
ServeYield(g) ==
  /\ AtServe(g, "yield")
  /\ ServeGoes(g, "check")
  /\ UNCHANGED <<analytics_vars, pipeline_vars, timing_vars, logger_vars,
                 invoked, frame_vars>>

ServeStep(g, limit) ==
  \/ ServeCheck(g)
  \/ ServeRead(g, limit)
  \/ ServeReadFails(g)
  \/ ServeEnter(g)
  \/ ServeThrottle(g)
  \/ ServeStamp(g)
  \/ \E found \in BOOLEAN : ServeDetect(g, found)
  \/ ServeAnalytics(g)
  \/ ServeYield(g)

PipeTick(d, limit) ==
  /\ clock + d <= Epoch + limit
  /\ clock' = clock + d
  /\ UNCHANGED <<last_frame_time, last_detection_time, skip_frames, skip_run,
                 faults,
                 origin>>
  /\ UNCHANGED <<analytics_vars, pipeline_vars, logger_vars, serve_vars, frame_vars>>

\* SkipSpec: the running stream of FeedSpec with the clock: the worker
\* decides by the measured delay whether it runs detection on a frame
SkipNext ==
  \/ \E w \in Threads : TimedThreadStep(w)
  \/ FeedStepBelowFull("viewer1", MaxSkipReads)
  \/ \E d \in Waits : PipeTick(d, MaxElapsed)

SkipSpec == FeedInit /\ [][SkipNext]_vars

\* ServeSpec: two /video_feed clients of video_processor_new.py and the
\* clock, on a controller that has a stream running or has none
ServeNext ==
  \/ \E g \in Viewers : ServeStep(g, MaxServeReads)
  \/ \E d \in Waits : PipeTick(d, MaxServeElapsed)

ServeSpec == (FeedInit \/ Init) /\ [][ServeNext]_vars

\* ------------------------------------------------------------ the event log
\* EventLogger: the deque events_buffer and the file log_file, one JSON
\* object per line.  An optional argument is None or <<value>>; the data
\* of an event is the number of the log_event call that made it, and
\* plain says whether json.dumps accepts the event.

Event(n, event_type, timestamp, plain) ==
  [timestamp |-> timestamp, type |-> event_type, data |-> n, plain |-> plain]

\* an append that refuses the new element when the deque is full
DequeKeepsOldest(buffer, event, maxlen) ==
  IF Len(buffer) >= maxlen THEN buffer ELSE Append(buffer, event)

\* deque(maxlen=...).append: a full deque discards its oldest element
DequeAppend(buffer, event, maxlen) ==
  IF Len(buffer) >= maxlen
  THEN Append(Tail(buffer), event)
  ELSE Append(buffer, event)

\* json.dumps(event) + '\n': the line log_event writes
Dumps(event) ==
  [format |-> "json", timestamp |-> event.timestamp, type |-> event.type,
   data |-> event.data]

\* _parse_log_line: whatever json.loads makes of the line (the event of a
\* line log_event wrote; the value of any other JSON text, such as 42 or
\* {"note": 1}), else the detection event of a legacy line
\* timestamp,object_type,confidence, else None.  _load_existing_events
\* tests the result with `if event:`, so a JSON text whose value is false
\* (null, 0, {}) counts as None
ParseLine(line) ==
  IF line.format = "json"
  THEN <<Event(line.data, line.type, line.timestamp, TRUE)>>
  ELSE IF line.format = "value"
       THEN <<[value |-> line.data]>>
       ELSE IF line.format = "csv"
            THEN <<Event(line.data, "detection", line.timestamp, TRUE)>>
            ELSE None

\* _load_existing_events: every line that parses is appended to the deque
RECURSIVE LoadLines(_, _)
LoadLines(lines, buffer) ==
  IF lines = <<>> THEN buffer
  ELSE LoadLines(Tail(lines),
                 IF ParseLine(Head(lines)) = None THEN buffer
                 ELSE DequeAppend(buffer, ParseLine(Head(lines))[1],
                                  max_events))

\* timestamp = time.time() when the argument is None
Stamp(timestamp) == IF timestamp = None THEN clock \div 1000 ELSE timestamp[1]

\* the buffer and the file after log_event has handled the event: the
\* append to the deque comes first; json.dumps raising on the data, or the
\* write failing, is caught and leaves the file as it was
Logged(buffer, event) == DequeAppend(buffer, event, max_events)

Written(lines, event, written) ==
  IF event.plain /\ written THEN Append(lines, Dumps(event)) ELSE lines

\* log_event(event_type, data, confidence, timestamp), with timestamps
\* that datetime.fromtimestamp accepts
LogEvent(event_type, timestamp, plain, written, limit) ==
  /\ nLogged < limit
  /\ nLogged' = nLogged + 1
  /\ events_buffer' =
       Logged(events_buffer,
              Event(nLogged + 1, event_type, Stamp(timestamp), plain))
  /\ log_lines' =
       Written(log_lines,
               Event(nLogged + 1, event_type, Stamp(timestamp), plain),
               written)
  /\ answer' = NoAnswer
  /\ UNCHANGED <<analytics_vars, pipeline_vars, timing_vars, serve_vars, frame_vars>>

\* the process ends and a new EventLogger is built on the same file
Restart ==
  /\ events_buffer' = LoadLines(log_lines, <<>>)
  /\ answer' = NoAnswer
  /\ UNCHANGED <<log_lines, nLogged>>
  /\ UNCHANGED <<analytics_vars, pipeline_vars, timing_vars, serve_vars, frame_vars>>

\* Python's truth value of an optional argument: None, 0 and '' are false
Truthy(arg, falsy) == arg # None /\ arg[1] # falsy

\* the three filters of get_events, each applied only if its argument is
\* true
OfType(events, event_type) ==
  IF Truthy(event_type, "")
  THEN SelectSeq(events, LAMBDA e : e.type = event_type[1])
  ELSE events

Since(events, start_time) ==
  IF Truthy(start_time, 0)
  THEN SelectSeq(events, LAMBDA e : e.timestamp >= start_time[1])
  ELSE events

Until(events, end_time) ==
  IF Truthy(end_time, 0)
  THEN SelectSeq(events, LAMBDA e : e.timestamp <= end_time[1])
  ELSE events

\* where a stable sort with reverse=True puts an event among the sorted
\* ones: behind every event that is not older
RECURSIVE InsertNewestFirst(_, _)
InsertNewestFirst(sorted, event) ==
  IF sorted = <<>> THEN <<event>>
  ELSE IF Head(sorted).timestamp >= event.timestamp
       THEN <<Head(sorted)>> \o InsertNewestFirst(Tail(sorted), event)
       ELSE <<event>> \o sorted

\* events.sort(key=lambda x: x['timestamp'], reverse=True)
RECURSIVE SortNewestFirst(_)
SortNewestFirst(events) ==
  IF events = <<>> THEN <<>>
  ELSE InsertNewestFirst(SortNewestFirst(SubSeq(events, 1, Len(events) - 1)),
                         events[Len(events)])

\* events[:limit]
Slice(events, limit) ==
  IF limit >= 0
  THEN SubSeq(events, 1, Min2(limit, Len(events)))
  ELSE SubSeq(events, 1, Max2(Len(events) + limit, 0))

\* e has the keys get_events reads: e['type'], e['timestamp']
IsEvent(e) == {"type", "timestamp"} \subseteq DOMAIN e

\* the filters and the key function of the sort read the keys of every
\* element; a KeyError or TypeError is caught and [] is returned
get_events(buffer, limit, event_type, start_time, end_time) ==
  IF \E i \in 1 .. Len(buffer) : ~IsEvent(buffer[i])
  THEN <<>>
  ELSE Slice(SortNewestFirst(Until(Since(OfType(buffer, event_type),
                                         start_time),
                                   end_time)),
             limit)

\* a client calls get_events
Query(limit, event_type, start_time, end_time) ==
  /\ answer' = [asked |-> TRUE, limit |-> limit, event_type |-> event_type,
                start_time |-> start_time, end_time |-> end_time,
                events |-> get_events(events_buffer, limit, event_type,
                                      start_time, end_time)]
  /\ UNCHANGED <<events_buffer, log_lines, nLogged>>
  /\ UNCHANGED <<analytics_vars, pipeline_vars, timing_vars, serve_vars, frame_vars>>

EventTypes == {"detection", "alert"}

\* the timestamp argument: None, or seconds since the epoch
Stamps == {None, <<0>>, <<1>>}

Limits == {0, 1, 100}

TypeFilters == {None, <<"">>, <<"detection">>}

TimeFilters == {None, <<0>>, <<1>>}

\* LoggerSpec: log_event calls whose write succeeds or fails, restarts and
\* get_events calls on one log file
LoggerNext ==
  \/ \E event_type \in EventTypes, timestamp \in Stamps,
        plain \in BOOLEAN, written \in BOOLEAN :
        LogEvent(event_type, timestamp, plain, written, MaxLogged)
  \/ Restart
  \/ \E limit \in Limits, event_type \in TypeFilters,
        start_time \in TimeFilters, end_time \in TimeFilters :
        Query(limit, event_type, start_time, end_time)

LoggerSpec == Init /\ [][LoggerNext]_vars

\* the lines a log file can hold when the EventLogger is built: a line
\* log_event wrote, a legacy line, a JSON text that is no event, a JSON
\* text whose value is false, and text that is neither JSON nor legacy
FileLine(format, n) ==
  [format |-> format, timestamp |-> 1, type |-> "alert", data |-> n]

LineFormats == {"json", "csv", "value", "falsy", "junk"}

RECURSIVE Files(_)
Files(n) ==
  IF n = 0 THEN {<<>>}
  ELSE Files(n - 1) \cup
       {Append(file, FileLine(format, Len(file) + 1)) :
          file \in {f \in Files(n - 1) : Len(f) = n - 1},
          format \in LineFormats}

\* EventLogger.__init__ on a log file that exists: its lines are loaded
ReloadInit ==
  /\ AnalyticsInit /\ PipelineInit /\ TimingInit /\ ServeInit /\ FrameInit
  /\ log_lines \in Files(MaxFileLines)
  /\ events_buffer = LoadLines(log_lines, <<>>)
  /\ nLogged = Len(log_lines)
  /\ answer = NoAnswer

\* ReloadSpec: an EventLogger built on an existing file, then log_event
\* calls, get_events calls and restarts
ReloadNext ==
  \/ \E event_type \in EventTypes, written \in BOOLEAN :
        LogEvent(event_type, None, TRUE, written, MaxFileLines + 1)
  \/ Restart
  \/ \E limit \in Limits, event_type \in TypeFilters,
        start_time \in TimeFilters :
        Query(limit, event_type, start_time, None)

ReloadSpec == ReloadInit /\ [][ReloadNext]_vars

\* RingSpec: one event after the other is logged, more than the deque holds
RingNext == LogEvent("detection", None, TRUE, TRUE, MaxRingLogged)

RingSpec == Init /\ [][RingNext]_vars

\* ------------------------------------------------- process_frame, one call
\* the boxes the detector returns: coordinates as the model gives them
\* (they may lie outside the frame), the class, and whether reading the
\* box succeeds (box.xyxy, box.conf, box.cls, self.model.names[class_id])
Found == {<<0, 0, 4, 2>>, <<MaxShift, 0, MaxShift + 4, 2>>,
          <<FrameWidth, 0, FrameWidth + 4, 2>>}

Box(xyxy, ok) == [xyxy |-> xyxy, class_name |-> "person", ok |-> ok]

\* a box whose fields cannot be read
Unreadable == Box(<<0, 0, 4, 2>>, FALSE)

RECURSIVE Results(_)
\* all results of up to n boxes
Results(n) ==
  IF n = 0 THEN {<<>>}
  ELSE Results(n - 1) \cup
       {Append(r, box) :
          r \in {q \in Results(n - 1) : Len(q) = n - 1},
          box \in {Box(b, TRUE) : b \in Found} \cup {Unreadable}}

\* x1 = max(0, min(int(x1), width - 1)) and the three lines after it
Clamped(xyxy, width, height) ==
  <<Max2(0, Min2(xyxy[1], width - 1)), Max2(0, Min2(xyxy[2], height - 1)),
    Max2(0, Min2(xyxy[3], width - 1)), Max2(0, Min2(xyxy[4], height - 1))>>

\* detection_data of one box
DetectionData(box, width, height) ==
  [class_name |-> box.class_name,
   bbox |-> Clamped(box.xyxy, width, height),
   zone |-> _determine_zone(Clamped(box.xyxy, width, height), width)]

\* the aggregator's fields as the next call finds them
NextCall(s) ==
  [s EXCEPT !.raised = FALSE, !.ret = None, !.branch = "", !.evicted = 0,
            !.key = None, !.live = <<>>]

RECURSIVE HandleUntilFailure(_, _, _, _)
HandleUntilFailure(s, handed, boxes, t) ==
  IF boxes = <<>> \/ ~Head(boxes).ok THEN [s |-> s, handed |-> handed]
  ELSE HandleUntilFailure(
         process_detection(NextCall(s),
                           DetectionData(Head(boxes), FrameWidth, FrameHeight),
                           t),
         Append(handed, DetectionData(Head(boxes), FrameWidth, FrameHeight)),
         Tail(boxes), t)

RECURSIVE HandleBoxes(_, _, _, _)
\* for box in boxes: try: ... process_detection(detection_data) ...
\* except Exception: continue.  A box that cannot be read is left out; an
\* exception out of process_detection is caught the same way, after the
\* fields it had written
HandleBoxes(s, handed, boxes, t) ==
  IF boxes = <<>> THEN [s |-> s, handed |-> handed]
  ELSE IF ~Head(boxes).ok THEN HandleBoxes(s, handed, Tail(boxes), t)
  ELSE HandleBoxes(
         process_detection(NextCall(s),
                           DetectionData(Head(boxes), FrameWidth, FrameHeight),
                           t),
         Append(handed, DetectionData(Head(boxes), FrameWidth, FrameHeight)),
         Tail(boxes), t)

\* return frame
FrameReturns(r, boxes) ==
  /\ Install(r.s)
  /\ last' = Observe("frame", NoDet, now, r.s)
  /\ handled' = r.handed
  /\ detected' = boxes
  /\ nFrames' = nFrames + 1

\* process_frame on a valid frame that passes the throttle: the detector
\* returns boxes, each is handed to the aggregator; the event log is not
\* touched
ProcessFrame(boxes) ==
  /\ pc = "idle" /\ sw = "idle"
  /\ nFrames < MaxFrames
  /\ FrameReturns(HandleBoxes(Fields, <<>>, boxes, now), boxes)
  /\ UNCHANGED <<now, pc, frame, sw, nCalls, sinceSwitch, probe, stopper>>
  /\ UNCHANGED <<pipeline_vars, timing_vars, logger_vars, serve_vars>>

\* FrameSpec: one frame after the other goes through process_frame
FrameNext == \E boxes \in Results(MaxBoxes) : ProcessFrame(boxes)

FrameSpec == Init /\ [][FrameNext]_vars

\* ------------------------------------------------------ _calculate_iou alone
\* boxes [x1, y1, x2, y2] with corners on the grid, x1 <= x2 and y1 <= y2
IouBoxes ==
  {box \in (0 .. MaxCoord) \X (0 .. MaxCoord) \X (0 .. MaxCoord)
             \X (0 .. MaxCoord) : box[1] <= box[3] /\ box[2] <= box[4]}

\* _calculate_iou is called on two boxes, both ways round, and on the
\* first box with itself
Measure(a, b) ==
  /\ probe = NoProbe
  /\ probe' = [a |-> a, b |-> b, ab |-> _calculate_iou(a, b),
               ba |-> _calculate_iou(b, a), aa |-> _calculate_iou(a, a),
               width |-> 0, zone |-> ""]
  /\ UNCHANGED <<detected, handled, nFrames, stopper>>
  /\ UNCHANGED <<analytics_vars, pipeline_vars, timing_vars, logger_vars,
                 serve_vars>>

IouNext == \E a \in IouBoxes, b \in IouBoxes : Measure(a, b)

IouSpec == Init /\ [][IouNext]_vars

\* ------------------------------------------------------ _determine_zone alone
\* frame widths, in pixels
ZoneWidths == {1, FrameWidth, 100}

\* the boxes [x1, 0, x2, 1] inside a frame of this width, as the clamping
\* of process_frame leaves them
ZoneBoxes(width) ==
  {<<x1, 0, x2, 1>> : x1 \in 0 .. width - 1, x2 \in 0 .. width - 1} \cap
  {bbox \in Int \X {0} \X Int \X {1} : bbox[1] <= bbox[3]}

\* _determine_zone is called on a box and the shape of a frame
Classify(bbox, width) ==
  /\ probe = NoProbe /\ nFrames = 0
  /\ probe' = [NoProbe EXCEPT !.a = bbox, !.width = width,
                              !.zone = _determine_zone(bbox, width)]
  /\ UNCHANGED <<detected, handled, nFrames, stopper>>
  /\ UNCHANGED <<analytics_vars, pipeline_vars, timing_vars, logger_vars,
                 serve_vars>>

\* ZoneSpec: the classifier on its own, or inside process_frame
ZoneNext ==
  \/ /\ probe = NoProbe /\ nFrames = 0
     /\ \E width \in ZoneWidths : \E bbox \in ZoneBoxes(width) :
          Classify(bbox, width)
  \/ \E boxes \in Results(MaxBoxes) : probe = NoProbe /\ ProcessFrame(boxes)

ZoneSpec == Init /\ [][ZoneNext]_vars

\* ------------------------------------------------ one worker cycle, any delay
\* a running stream whose last_frame_time was written one frame interval
\* before Epoch; the first frame reaches the worker between 0 and MaxDelay
\* milliseconds late
DelayInit ==
  /\ AnalyticsInit /\ RunningPipeline /\ LoggerInit /\ ServeInit /\ FrameInit
  /\ clock \in Epoch .. Epoch + MaxDelay
  /\ last_frame_time = Epoch - frame_interval
  /\ last_detection_time = 0
  /\ skip_frames = 0
  /\ skip_run = 0
  /\ faults = 0
  /\ origin = <<>>

DelayNext ==
  \/ \E w \in Threads : TimedThreadStep(w)
  \/ FeedStepBelowFull("viewer1", MaxPipeReads)

DelaySpec == DelayInit /\ [][DelayNext]_vars

\* ------------------------------------- a second request, in stop_detection
\* Flask serves each request on its own thread: disconnect() is called
\* while the first request thread may be inside connect or stop_detection
StopperGoes(p) == stopper' = p

StopperCall ==
  /\ stopper = "idle"
  /\ StopperGoes("flag")
  /\ UNCHANGED <<detected, handled, nFrames, probe>>
  /\ UNCHANGED <<analytics_vars, pipeline_vars, timing_vars, logger_vars,
                 serve_vars>>

\* self.is_running = False
StopperFlag ==
  /\ stopper = "flag"
  /\ is_running' = FALSE
  /\ StopperGoes("join")
  /\ UNCHANGED <<cap, current_frame, frame_queue, processing_thread, workers,
                 feeds, ctl, handles, nReads>>
  /\ UNCHANGED <<detected, handled, nFrames, probe>>
  /\ UNCHANGED <<analytics_vars, timing_vars, logger_vars, serve_vars>>

\* self.processing_thread.join(timeout=1.0), if there is a thread
StopperJoin ==
  /\ stopper = "join"
  /\ StopperGoes("release")
  /\ UNCHANGED <<detected, handled, nFrames, probe>>
  /\ UNCHANGED <<analytics_vars, pipeline_vars, timing_vars, logger_vars,
                 serve_vars>>

\* if self.cap: self.cap.release(); self.cap = None; current_frame = None
StopperRelease ==
  /\ stopper = "release"
  /\ handles' = Released(handles, cap)
  /\ cap' = NoCap
  /\ current_frame' = NoImage
  /\ StopperGoes("drain")
  /\ UNCHANGED <<is_running, frame_queue, processing_thread, workers, feeds,
                 ctl, nReads>>
  /\ UNCHANGED <<detected, handled, nFrames, probe>>
  /\ UNCHANGED <<analytics_vars, timing_vars, logger_vars, serve_vars>>

\* while not self.frame_queue.empty(): ...; then disconnect returns
StopperDrain ==
  /\ stopper = "drain"
  /\ StopperGoes(IF frame_queue # <<>> THEN "drain_get" ELSE "done")
  /\ UNCHANGED <<detected, handled, nFrames, probe>>
  /\ UNCHANGED <<analytics_vars, pipeline_vars, timing_vars, logger_vars,
                 serve_vars>>

\* self.frame_queue.get(), which waits while the queue is empty
StopperDrainGet ==
  /\ stopper = "drain_get"
  /\ frame_queue # <<>>
  /\ frame_queue' = Tail(frame_queue)
  /\ StopperGoes("drain")
  /\ UNCHANGED <<is_running, cap, current_frame, processing_thread, workers,
                 feeds, ctl, handles, nReads>>
  /\ UNCHANGED <<detected, handled, nFrames, probe>>
  /\ UNCHANGED <<analytics_vars, timing_vars, logger_vars, serve_vars>>

StopperStep ==
  \/ StopperCall
  \/ StopperFlag
  \/ StopperJoin
  \/ StopperRelease
  \/ StopperDrain
  \/ StopperDrainGet

\* RaceSpec: the requests of PipeSpec on one thread and a disconnect
\* request on another
RaceNext ==
  \/ \E w \in Threads : ThreadStep(w)
  \/ FeedStepBelowFull("viewer1", MaxPipeReads)
  \/ CallStop(MaxPipeRequests)
  \/ StopStep
  \/ \E source \in Sources : CallConnect(source, MaxPipeRequests)
  \/ ConnectStep
  \/ StopperStep

RaceSpec == Init /\ [][RaceNext]_vars

\* ------------------------------------------- a source that never runs dry
\* the time one self.cap.read() takes: a source of 30 and one of 5 frames
\* per second
Periods == {33, 200}

\* a time stamp after d more milliseconds.  Only differences to the clock
\* are read, and only against the horizon or less, so the stamp moves d
\* into the past instead of the clock forward, and not beyond the horizon
Aged(stamp, d, horizon) ==
  IF clock - (stamp - d) < horizon THEN stamp - d
  ELSE Min2(stamp, clock - horizon)

\* ret, frame = self.cap.read() returns a valid frame after d milliseconds;
\* frames after the limit-th are numbered like the limit-th
SourceDelivers(g, d, limit) ==
  /\ AtFeed(g, "read")
  /\ CanRead
  /\ nReads' = Min2(nReads + 1, limit)
  /\ feeds' = [feeds EXCEPT ![g].pc = "full",
                            ![g].frame = Min2(nReads + 1, limit)]
  /\ origin' = IF nReads < limit THEN Append(origin, cap) ELSE origin
  /\ last_frame_time' = Aged(last_frame_time, d, 1000)
  /\ last_detection_time' = Aged(last_detection_time, d, detection_interval)
  /\ UNCHANGED <<is_running, cap, current_frame, frame_queue,
                 processing_thread, workers, ctl, handles>>
  /\ UNCHANGED <<clock, skip_frames, skip_run, faults>>
  /\ UNCHANGED <<analytics_vars, logger_vars, serve_vars, frame_vars>>

\* generate_frames on such a source
SourceStep(g, limit) ==
  \/ FeedCheck(g)
  \/ \E d \in Periods : SourceDelivers(g, d, limit)
  \/ FeedFull(g)
  \/ FeedEvict(g)
  \/ FeedPut(g)
  \/ FeedShow(g)
  \/ FeedCount(g)
  \/ FeedYield(g)

\* ArrivalSpec: frames keep arriving, the worker and the client's loop both
\* keep running
ArrivalNext ==
  \/ \E w \in Threads : TimedThreadStep(w)
  \/ SourceStep("viewer1", MaxLoopReads)

ArrivalSpec ==
  /\ FeedInit
  /\ [][ArrivalNext]_vars
  /\ WF_vars(\E w \in Threads : TimedThreadStep(w))
  /\ WF_vars(SourceStep("viewer1", MaxLoopReads))

\* ------------------------------------------------------------------ claims
\* the latest call entered _track_object
Tracked == last.op \in {"process", "raised"}

\* the latest call got a result from _track_object
TrackReturned == Tracked /\ last.branch \in {"matched", "created"}

Indices(seq) == 1 .. Len(seq)

\* C1: after a call to the tracker at time t every object of the tracking
\* set, and every object the matching looked at, has t - last_seen < 5.
C1_NoStaleObject ==
  Tracked =>
    /\ \A i \in Indices(object_tracking) :
         last.time - object_tracking[i].last_seen < 5
    /\ \A i \in Indices(last.live) : last.time - last.live[i].last_seen < 5

\* a call of the tracker discarded an object and kept another
C1_Witness == Tracked /\ last.evicted > 0 /\ Len(last.live) > 0

\* the live objects of the detection's class whose IoU with it is over 0.5
Candidates(live, det) ==
  {i \in Indices(live) :
     /\ live[i].class = det.class_name
     /\ Greater(_calculate_iou(det.bbox, live[i].bbox), <<1, 2>>)}

\* i has the greatest IoU of the candidates and is the first to have it
FirstOfGreatest(live, det, i) ==
  /\ i \in Candidates(live, det)
  /\ \A j \in Candidates(live, det) :
       /\ ~Greater(_calculate_iou(det.bbox, live[j].bbox),
                   _calculate_iou(det.bbox, live[i].bbox))
       /\ j < i => Greater(_calculate_iou(det.bbox, live[i].bbox),
                           _calculate_iou(det.bbox, live[j].bbox))

\* C2: the tracker returns the id of the live object of the same class with
\* the greatest IoU over 0.5, the first in insertion order among equals, and
\* creates an object exactly when there is no such object.  (With a
\* configured type active the tracker always returns.)
C2_BestMatch ==
  Tracked =>
    /\ last.branch = "created" <=> Candidates(last.live, last.det) = {}
    /\ last.branch = "matched" =>
         \E i \in Indices(last.live) :
           /\ FirstOfGreatest(last.live, last.det, i)
           /\ last.ret = last.live[i].id
    /\ business_type \in ConfiguredTypes => TrackReturned

\* a match chosen among two candidates
C2_Witness ==
  /\ last.branch = "matched"
  /\ Cardinality(Candidates(last.live, last.det)) >= 2

\* C3: a detection without a match is recorded under an id that was not in
\* the tracking set, which grows by one and keeps every live object.
C3_NewIdentityIsFresh ==
  (Tracked /\ last.branch = "created") =>
    /\ \A i \in Indices(last.live) : last.live[i].id # last.ret
    /\ Len(object_tracking) = Len(last.live) + 1
    /\ \A i \in Indices(last.live) : object_tracking[i] = last.live[i]

\* C4: a match leaves the size of the tracking set, the other objects and
\* the matched object's id, class and first_seen as they were, replaces its
\* bbox, last_seen and zone by the detection's and appends one entry to its
\* trajectory.
C4_MatchUpdatesInPlace ==
  (Tracked /\ last.branch = "matched") =>
    /\ Len(object_tracking) = Len(last.live)
    /\ \A i \in Indices(last.live) :
         IF last.live[i].id = last.ret
         THEN /\ object_tracking[i].id = last.live[i].id
              /\ object_tracking[i].class = last.live[i].class
              /\ object_tracking[i].first_seen = last.live[i].first_seen
              /\ object_tracking[i].bbox = last.det.bbox
              /\ object_tracking[i].last_seen = last.time
              /\ object_tracking[i].zone = last.det.zone
              /\ object_tracking[i].trajectory =
                   Append(last.live[i].trajectory, last.det.bbox)
         ELSE object_tracking[i] = last.live[i]

\* two overlapping detections of a person gave one object with a trajectory
\* of two boxes
C4_Witness ==
  /\ Tracked /\ last.branch = "matched"
  /\ last.det.class_name = "person"
  /\ Len(object_tracking) = 1
  /\ Len(object_tracking[1].trajectory) = 2
  /\ object_tracking[1].trajectory[1] # object_tracking[1].trajectory[2]

\* the value of a counter of a defaultdict(int)
CounterValue(map, k) == IF k \in DOMAIN map THEN map[k] ELSE 0

\* the zone the object the tracker returned had before the call
ZoneBefore ==
  LET i == CHOOSE i \in Indices(last.live) : last.live[i].id = last.ret
  IN  last.live[i].zone

\* C5: with a configured type active, a call of the tracker adds one to the
\* transition counter <<old_zone, new_zone>> of that type when it matched an
\* object whose zone differs from the detection's, and otherwise changes no
\* transition counter.
C5_TransitionCounted ==
  (Tracked /\ business_type \in ConfiguredTypes) =>
    LET after  == metrics[business_type].zone_transitions
        before == last.transitions_before
        keys   == DOMAIN after \cup DOMAIN before
    IN  IF last.branch = "matched" /\ ZoneBefore # last.det.zone
        THEN \A k \in keys \cup {<<ZoneBefore, last.det.zone>>} :
               CounterValue(after, k) =
                 CounterValue(before, k)
                   + (IF k = <<ZoneBefore, last.det.zone>> THEN 1 ELSE 0)
        ELSE after = before

\* a match moved an object to another zone
C5_Witness ==
  /\ Tracked /\ last.branch = "matched"
  /\ business_type \in ConfiguredTypes
  /\ ZoneBefore # last.det.zone
  /\ CounterValue(metrics[business_type].zone_transitions,
                  <<ZoneBefore, last.det.zone>>) = 1

\* C6: once process_detection at time t is past its pruning, the history
\* ends with the entry of this detection and holds no entry with
\* t - entry.time >= 5.
C6_HistoryWindow ==
  TrackReturned =>
    /\ detection_history # <<>>
    /\ detection_history[Len(detection_history)] =
         [time |-> last.time, data |-> last.det, obj_id |-> last.ret]
    /\ \A i \in Indices(detection_history) :
         ~(last.time - detection_history[i].time >= 5)

\* a call pruned an entry: fewer entries than calls since the reset
C6_Witness ==
  /\ last.op = "process"
  /\ Len(detection_history) < sinceSwitch

\* C7: after every process_detection each class counter of the active type
\* equals the number of history entries of its classes.
C7_CountersMatchWindow ==
  (last.op = "process" /\ business_type \in ConfiguredTypes) =>
    \A c \in DOMAIN metrics[business_type].counts :
      metrics[business_type].counts[c] =
        Cardinality({i \in Indices(detection_history) :
                       detection_history[i].data.class_name
                         \in CounterClasses[business_type][c]})

\* every counter of a type is zero and every map of it is empty
TypeMetricsAreZero(m) ==
  /\ \A c \in DOMAIN m.counts : m.counts[c] = 0
  /\ DOMAIN m.zone_density = {}
  /\ DOMAIN m.peak_hours = {}
  /\ DOMAIN m.object_trends = {}
  /\ DOMAIN m.zone_transitions = {}
  /\ m.average_stay_time[1] = 0
  /\ m.performance_metrics.detection_rate[1] = 0
  /\ m.performance_metrics.processing_time[1] = 0

\* C8: a switch of the business type leaves the requested type active,
\* every counter zero, every map, the history, the tracking set and the
\* performance history empty; whatever is there later comes from the
\* detections processed since.
C8_SwitchResets ==
  /\ last.op = "switch" =>
       /\ \A bt \in DOMAIN metrics : TypeMetricsAreZero(metrics[bt])
       /\ detection_history = <<>>
       /\ object_tracking = <<>>
       /\ performance_history = <<>>
  /\ Len(detection_history) <= sinceSwitch
  /\ Len(object_tracking) <= sinceSwitch
  /\ Len(performance_history) <= sinceSwitch
  /\ \A bt \in DOMAIN metrics :
       /\ \A c \in DOMAIN metrics[bt].counts : metrics[bt].counts[c] <= sinceSwitch
       /\ sinceSwitch = 0 => TypeMetricsAreZero(metrics[bt])

\* a switch dropped tracked objects
C8_Witness == last.op = "switch" /\ last.evicted > 0

\* C9: when a switch and the process_detection calls around it have all
\* finished, and no call entered after the switch request began, nothing of
\* an earlier detection is left.
C9_SwitchIsAtomic ==
  (pc = "idle" /\ sw = "idle" /\ sinceSwitch = 0) =>
    /\ detection_history = <<>>
    /\ object_tracking = <<>>
    /\ performance_history = <<>>
    /\ \A bt \in DOMAIN metrics : TypeMetricsAreZero(metrics[bt])

\* C10: the active type is always a configured one, so process_detection
\* never raises and get_insights has metrics to report.
C10_InvalidTypeRejected ==
  /\ business_type \in ConfiguredTypes
  /\ last.op # "raised"
  /\ ~InsightsRaises(Fields)

\* the entries of a recommendations list that are the warning w
WarningCount(recs, w) == Cardinality({j \in Indices(recs) : recs[j] = <<w>>})

\* C11: get_insights gives one warning for each configured metric of the
\* active type whose counter is over its threshold and none for the others;
\* under supermarket n person detections inside one window give
\* person_count = n, with the warning of person_count when n is 21 and
\* without it when n is 20.
C11_ThresholdWarnings ==
  /\ last.op = "insights" =>
       \A i \in Indices(MetricConfigs[business_type]) :
         WarningCount(last.insights, MetricConfigs[business_type][i].warning) =
           IF metrics[business_type].counts[MetricConfigs[business_type][i].metric]
                > MetricConfigs[business_type][i].threshold
           THEN 1 ELSE 0
  /\ (/\ last.op = "insights" /\ business_type = "supermarket"
      /\ detection_history # <<>>
      /\ detection_history[1].data.class_name = "person") =>
       /\ metrics.supermarket.counts.person_count = nCalls
       /\ nCalls = 21 => WarningCount(last.insights, "Alta movimentação") = 1
       /\ nCalls = 20 => WarningCount(last.insights, "Alta movimentação") = 0

\* 21 person detections under supermarket, and the warning reported
C11_Witness ==
  /\ last.op = "insights" /\ business_type = "supermarket"
  /\ nCalls = 21
  /\ metrics.supermarket.counts.person_count = 21
  /\ WarningCount(last.insights, "Alta movimentação") = 1

\* the last k entries of a list, all of them when it has no more than k
LastOf(list, k) == SubSeq(list, Max2(1, Len(list) - k + 1), Len(list))

\* the time stamps of the calls so far: in CapSpec no entry of the history
\* is old enough to be pruned, so the history holds one entry per call
CallStamps == [i \in Indices(detection_history) |-> detection_history[i].time]

\* the seconds each call so far took: in CapSpec the clock moves only
\* inside a call, up to its read for the processing time
CallDurations ==
  [i \in Indices(detection_history) |->
     (IF i < Len(detection_history) THEN detection_history[i + 1].time ELSE now)
       - detection_history[i].time]

\* C12: the performance history and each list of object_trends hold at
\* most 100 entries, which are the newest, in the order of the calls.
C12_ListsCapped ==
  /\ Len(performance_history) <= 100
  /\ performance_history = LastOf(CallDurations, 100)
  /\ \A c \in DOMAIN metrics[business_type].object_trends :
       Len(metrics[business_type].object_trends[c]) <= 100
  /\ nCalls > 0 =>
       metrics[business_type].object_trends["person"] = LastOf(CallStamps, 100)

\* more than 100 calls, the first of which took a second the others did not
C12_Witness ==
  /\ nCalls > 100
  /\ Len(detection_history) = nCalls
  /\ CallDurations[1] = 1
  /\ Len(performance_history) = 100
  /\ performance_history[1] = 0
  /\ Len(metrics[business_type].object_trends["person"]) = 100
  /\ metrics[business_type].object_trends["person"][1] = 1

\* a worker waits inside frame_queue.get() on an empty queue
BlockedGet(w) == workers[w].pc = "get" /\ frame_queue = <<>>

\* a generate_frames loop waits inside frame_queue.put() on a full queue
BlockedPut(g) == feeds[g].pc = "put" /\ Len(frame_queue) >= QueueMax

\* C13: the frame queue never holds more than 10 frames, no generate_frames
\* loop waits in its put and no worker waits in its get.
C13_QueueNeverBlocks ==
  /\ Len(frame_queue) <= 10
  /\ \A g \in Viewers : ~BlockedPut(g)
  /\ \A w \in Threads : ~BlockedGet(w)

\* no worker has taken a frame from the queue yet
NoPop == \A w \in Threads : workers[w].frame = NoImage

\* the newest frames of n delivered ones, at most QueueMax, oldest first
NewestFrames(n) ==
  [i \in 1 .. (IF n < QueueMax THEN n ELSE QueueMax) |->
     (IF n < QueueMax THEN 0 ELSE n - QueueMax) + i]

\* after n pushes and no pop the queue holds the newest frames, in the
\* order they came
NewestRemain ==
  (NoPop /\ AtFeed("viewer1", "check")) => frame_queue = NewestFrames(nReads)

\* the step is a pop by worker w
Pops(w) == workers'[w].frame # workers[w].frame

\* C14 as stated: after pushes with no pop (15 of them among the cases) the
\* oldest frames are gone and the 10 newest remain, and a pop takes the
\* newest frame of the queue, so that a drain yields them newest first.
C14_DrainNewestFirst ==
  /\ []NewestRemain
  /\ [][\A w \in Threads : Pops(w) =>
          \A i \in 1 .. Len(frame_queue') :
            frame_queue'[i] < workers'[w].frame]_vars

\* C14, amended: after pushes with no pop (15 of them among the cases) the
\* oldest frames are gone and the 10 newest remain, and a pop takes the
\* oldest frame of the queue, so that a drain yields them oldest first.
C14_DrainOldestFirst ==
  /\ []NewestRemain
  /\ [][\A w \in Threads : Pops(w) =>
          \A i \in 1 .. Len(frame_queue') :
            workers'[w].frame < frame_queue'[i]]_vars

\* 15 frames were pushed and none popped: frames 6 to 15 are queued and the
\* worker is about to take the first of them
C14_Witness ==
  /\ nReads = 15
  /\ NoPop
  /\ AtFeed("viewer1", "check")
  /\ frame_queue = <<6, 7, 8, 9, 10, 11, 12, 13, 14, 15>>
  /\ AtWorker(1, "get")

\* worker w is inside the body of its while self.is_running loop
InLoop(w) == workers[w].pc \in {"empty", "get", "decide", "task_done"}

\* C15: at any moment at most one worker is executing the frame-processing
\* loop, whatever connect and disconnect calls were made.
C15_OneWorker == Cardinality({w \in Threads : InLoop(w)}) <= 1

\* the stop flag is set, no connect is under way and no generate_frames
\* loop is past its is_running test: nothing will put a frame any more
NothingToCome ==
  /\ ~is_running
  /\ ctl.op # "connect"
  /\ \A g \in Viewers : AtFeed(g, "check")

\* stop_detection waits inside the get() of its drain loop
BlockedDrain == AtCtl("drain_get") /\ frame_queue = <<>>

\* C16: once the stop flag is set and no connect follows, neither the
\* worker's pop nor stop's drain waits for a frame that cannot come: the
\* worker can still leave its loop and stop can still return.
C16_StopNeverHangs ==
  NothingToCome => (~BlockedDrain /\ \A w \in Threads : ~BlockedGet(w))

\* disconnect has returned and no connect was called since
StopReturned == ctl.op = "idle" /\ ctl.result = "stopped"

\* C17: once stop/disconnect has returned and until the next connect the
\* stop flag is set, the capture handle is released and absent, the frame
\* queue is empty and the latest-processed-frame slot is cleared.
C17_StoppedStaysClean ==
  StopReturned =>
    /\ ~is_running
    /\ cap = NoCap
    /\ \A h \in 1 .. Len(handles) : handles[h] # "open"
    /\ frame_queue = <<>>
    /\ current_frame = NoImage

\* a stop_detection is under way that was called on an idle controller:
\* before any connect, after a failed connect or after another stop
StopOnIdle == ctl.op = "stop" /\ ctl.result \in {"", "failed", "stopped"}

\* the state a completed stop_detection leaves the controller in
AsStopLeavesIt ==
  /\ ~is_running
  /\ cap = NoCap
  /\ current_frame = NoImage
  /\ frame_queue = <<>>

\* C18: stop/disconnect called when idle, after a failed connect or twice
\* in a row does not hang and returns with the controller as the call
\* before it left it.
C18_StopIdempotent ==
  /\ [](StopOnIdle /\ NothingToCome => ~BlockedDrain)
  /\ [][StopOnIdle /\ ctl'.op = "idle" => AsStopLeavesIt']_vars

\* an attempt on a network stream that succeeds: the capture opens and a
\* valid frame is read within the timeout
GoodAttempt(o) == o # Unopened /\ o < ReadTimeout

\* the first attempt on the stream that succeeds, 0 if none of them does
FirstGood(stream) ==
  IF \E k \in DOMAIN stream : GoodAttempt(stream[k])
  THEN CHOOSE k \in DOMAIN stream :
         /\ GoodAttempt(stream[k])
         /\ \A j \in 1 .. k - 1 : ~GoodAttempt(stream[j])
  ELSE 0

\* _connect_to_stream is as C19 says: at most 3 attempts, retry_delay
\* seconds of sleep between two of them, success at the first attempt that
\* succeeds and the exception when none does
StreamRetriesAsStated ==
  /\ ctl.attempt <= max_retries
  /\ (ctl.op = "start" /\ ctl.pc \in {"opened", "read"}) =>
       ctl.slept = retry_delay * (ctl.attempt - 1)
  /\ (ctl.op = "idle" /\ ctl.result = "connected") =>
       (FirstGood(ctl.stream) > 0 /\ ctl.attempt = FirstGood(ctl.stream))
  /\ (ctl.op = "idle" /\ ctl.result = "raised") =>
       (FirstGood(ctl.stream) = 0 /\ ctl.attempt = max_retries)

\* C19: connect makes at most 3 attempts; it succeeds when one of them can
\* (the source opens and delivers a valid frame) and reports failure only
\* after 3 attempts on a source that fails every one of them.
C19_ThreeAttempts ==
  /\ ctl.attempt <= max_retries
  /\ (ctl.op = "idle" /\ ctl.result = "connected") =>
       ctl.source \in {"ok", "transient"}
  /\ (ctl.op = "idle" /\ ctl.result = "failed") =>
       (ctl.attempt = max_retries /\ ctl.source \in {"unopened", "noframe"})

\* no stream has run on the controller: no worker was ever started
NeverRan == processing_thread = NoThread

\* the fields of the controller and its threads, but for the request thread
Controller ==
  <<is_running, cap, current_frame, frame_queue, handles, workers,
    processing_thread>>

\* C20: a connect that fails reports failure (and every connect to a source
\* that does not open or gives no frame fails), leaves the running flag
\* false and no capture held, and starts no worker; a disconnect after it,
\* on a controller that never ran a stream, changes nothing and does not
\* wait.
C20_FailedConnectIsClean ==
  /\ []((ctl.op = "idle" /\ ctl.result = "connected") => ctl.source = "ok")
  /\ []((ctl.op = "idle" /\ ctl.result = "failed") =>
          (~is_running /\ cap = NoCap))
  /\ [][(ctl.op = "connect" /\ ctl.source # "ok") =>
          (Len(workers') = Len(workers) /\
           processing_thread' = processing_thread)]_vars
  /\ [][(ctl.op = "stop" /\ ctl.result = "failed" /\ NeverRan /\ ctl' # ctl) =>
          (UNCHANGED Controller /\ ctl'.pc # "drain_get")]_vars

\* connect failed on a new controller and the disconnect after it has
\* returned
C20_Witness ==
  /\ ctl.op = "idle"
  /\ ctl.result = "stopped"
  /\ ctl.connects = 1
  /\ ctl.stops = 1
  /\ NeverRan
  /\ handles = <<"released">>

\* C21: a connect that fails while a pipeline is running changes nothing of
\* that pipeline: no step of the call changes the running flag, the capture
\* handle, the worker, the frame queue or the latest frame.
C21_FailedConnectKeepsPipeline ==
  [][(ctl.op = "connect" /\ ctl.source # "ok" /\ is_running /\ ctl' # ctl) =>
       /\ is_running'
       /\ cap' = cap
       /\ processing_thread' = processing_thread
       /\ frame_queue' = frame_queue
       /\ current_frame' = current_frame]_vars


\* C22: a measured delay above 100 ms gives a skip count of min(3,
\* delay / frame_interval) and detection is skipped for that many worker
\* cycles before it runs again: the cycles skipped in a row are never more
\* than the skip count computed for them.
C22_SkipsThatManyCycles == skip_run <= skip_frames


\* C23: the detector is invoked at most once per detection interval: two
\* consecutive invocations are at least 100 ms apart, whichever threads
\* call process_frame.
C23_DetectorThrottled ==
  Len(invoked) = 2 => invoked[2] - invoked[1] >= detection_interval


\* the /video_feed client threads inside process_detection
Inside == {g \in Viewers : AtServe(g, "analytics")}

\* C24: the worker thread is the only task that mutates the analytics
\* state: no two executions of process_detection overlap, and no thread
\* other than the worker is inside process_detection.
C24_OnlyWorkerCalls == Cardinality(Inside) <= 1 /\ Inside = {}

\* two client threads are inside process_detection at once
C24_Overlap == Cardinality(Inside) = 2


\* thread w leaves its loop in this step
Exits(w) == workers[w].pc # "exited" /\ workers'[w].pc = "exited"

\* C25: the processing loop never ends on its own: a worker that catches
\* an exception and an output loop whose read fails go on with their next
\* iteration, a worker leaves its loop only when the running flag is
\* cleared, and only stop_detection clears the flag.
C25_LoopsEndOnlyByStop ==
  [][/\ \A w \in Threads : Exits(w) => ~is_running
     /\ \A w \in Threads :
          (faults' # faults /\ workers'[w] # workers[w]) =>
            workers'[w].pc = "while"
     /\ \A g \in Viewers :
          (feeds[g].pc = "read" /\ feeds'[g].pc # "full" /\ feeds'[g] # feeds[g])
            => feeds'[g].pc = "check"
     /\ (is_running /\ ~is_running') => (ctl.op = "stop" /\ ctl.pc = "flag")
    ]_vars

\* the worker caught an exception, took the next frame and left its loop
\* after a disconnect; the output loop had a failed read and went on to
\* the waiting screen
C25_Witness ==
  /\ faults > 0
  /\ ~is_running /\ ctl.stops > 0
  /\ \E w \in Threads : workers[w].pc = "exited" /\ workers[w].frame = 2
  /\ feeds["viewer1"].frame = NoImage /\ nReads > 0
  /\ AtFeed("viewer1", "yield")


\* C26: the output is continuous: the consumer always eventually receives
\* a next frame, the waiting screen while no stream is active and the raw
\* frame when a read fails, also when the reads keep failing.
C26_AlwaysNextFrame == []<>AtFeed("viewer1", "yield")


\* client g takes the latest processed frame in this step
Obtains(g) ==
  AtFeed(g, "show") /\ feeds'[g].pc = "count" /\ current_frame # NoImage

\* C27: the latest processed frame has most-recent-value semantics: a
\* reader never obtains a processed frame older than one it has obtained
\* before, and never a frame of a stream that has been stopped: the
\* capture the frame was read from has not been released.
C27_LatestFrameOfThisStream ==
  [][\A g \in Viewers :
       Obtains(g) =>
         /\ feeds'[g].seen >= feeds[g].seen
         /\ handles[origin[current_frame]] = "open"]_vars


\* C28: the event buffer never holds more than 1000 events, and a full
\* buffer gives up exactly its oldest event for a new one: after n events
\* it holds the latest min(n, 1000) of them in the order they were logged.
C28_RingBuffer ==
  /\ Len(events_buffer) <= max_events
  /\ Len(events_buffer) = Min2(nLogged, max_events)
  /\ \A i \in Indices(events_buffer) :
       events_buffer[i].data = nLogged - Len(events_buffer) + i

\* an event has been logged into a full buffer
C28_Witness == nLogged > max_events /\ Len(events_buffer) = max_events


\* C29: the buffer mirrors the durable log: after any log calls, failed
\* writes included, and restarts, the buffer is the last min(n, 1000)
\* entries of the log file, in the same order.
C29_BufferMirrorsLog ==
  /\ Len(events_buffer) = Min2(Len(log_lines), max_events)
  /\ \A i \in Indices(events_buffer) :
       Dumps(events_buffer[i]) =
         log_lines[Len(log_lines) - Len(events_buffer) + i]


\* event e satisfies every predicate the latest query supplied
Matches(e) ==
  /\ answer.event_type # None => e.type = answer.event_type[1]
  /\ answer.start_time # None => e.timestamp >= answer.start_time[1]
  /\ answer.end_time # None => e.timestamp <= answer.end_time[1]

InAnswer(e) == \E i \in Indices(answer.events) : answer.events[i] = e

\* C30: a query returns at most limit events, each of them satisfies
\* every supplied predicate (type equal, timestamp >= start, timestamp <=
\* end), they are sorted newest first, and a buffered event that satisfies
\* the predicates is left out only if limit events that are not older are
\* returned.
C30_QueryAnswer ==
  answer.asked =>
    /\ Len(answer.events) <= answer.limit
    /\ \A i \in Indices(answer.events) : Matches(answer.events[i])
    /\ \A i, j \in Indices(answer.events) :
         i < j => answer.events[i].timestamp >= answer.events[j].timestamp
    /\ \A k \in Indices(events_buffer) :
         (Matches(events_buffer[k]) /\ ~InAnswer(events_buffer[k])) =>
           /\ Len(answer.events) = answer.limit
           /\ \A i \in Indices(answer.events) :
                answer.events[i].timestamp >= events_buffer[k].timestamp


\* the latest query asked for up to 100 events and supplied no predicate
AskedForAll ==
  /\ answer.asked /\ answer.limit = 100
  /\ answer.event_type = None
  /\ answer.start_time = None /\ answer.end_time = None

\* C31: the reload at startup skips every line that is not a well-formed
\* event, so only events are in the buffer, and a query after the reload
\* returns the valid events the buffer holds.
C31_ReloadSkipsMalformed ==
  /\ \A i \in Indices(events_buffer) : IsEvent(events_buffer[i])
  /\ AskedForAll =>
       \A i \in Indices(events_buffer) :
         IsEvent(events_buffer[i]) => InAnswer(events_buffer[i])

\* a query after the reload of a file with a valid event returns nothing
C31_NothingReturned ==
  /\ AskedForAll /\ answer.events = <<>>
  /\ \E i \in Indices(events_buffer) : IsEvent(events_buffer[i])

\* C32: every detection process_frame hands to the aggregator also has an
\* event in the event log: in the buffer and in the file.
C32_HandledIsLogged ==
  /\ Len(handled) <= Len(events_buffer)
  /\ Len(handled) <= Len(log_lines)

\* a frame whose detection reached the aggregator, and an event log that
\* holds nothing
C32_HandledUnlogged ==
  /\ handled # <<>>
  /\ Len(detection_history) > 0
  /\ events_buffer = <<>> /\ log_lines = <<>>

\* the boxes of the latest frame that could be read, in the detector's order
Readable == SelectSeq(detected, LAMBDA box : box.ok)

\* C33: a failure while one detection of a frame is handled skips that
\* detection only: after process_frame has returned, the detections handed
\* to the aggregator are those of all the other boxes of the frame, in
\* order, whether they come before or after the failing one.
C33_OnlyThatDetectionSkipped ==
  /\ Len(handled) = Len(Readable)
  /\ \A i \in 1 .. Len(handled) :
       handled[i] = DetectionData(Readable[i], FrameWidth, FrameHeight)

\* the second frame has returned; its first box failed and its second box
\* was handed to the aggregator
C33_Witness ==
  /\ nFrames = 2
  /\ Len(detected) = 2 /\ ~detected[1].ok /\ detected[2].ok
  /\ Len(handled) = 1
  /\ last.op = "frame" /\ last.branch \in {"matched", "created"}

Area(box) == (box[3] - box[1]) * (box[4] - box[2])

\* two boxes that share no area
Disjoint(a, b) ==
  \/ a[3] <= b[1] \/ b[3] <= a[1]
  \/ a[4] <= b[2] \/ b[4] <= a[2]

Measured == probe # NoProbe

\* C34: for boxes a and b with integer corners, x1 <= x2 and y1 <= y2:
\* IoU(a, a) = 1 when a has a positive area and 0 when its area is 0,
\* IoU(a, b) = 0 when a and b are disjoint, IoU(a, b) = IoU(b, a), and the
\* IoU is 0 whenever the union area is 0.
C34_IouLaws ==
  Measured =>
    /\ Area(probe.a) > 0 => probe.aa[1] = probe.aa[2]
    /\ Area(probe.a) = 0 => probe.aa[1] = 0
    /\ Disjoint(probe.a, probe.b) => probe.ab[1] = 0
    /\ probe.ab = probe.ba
    /\ Area(probe.a) + Area(probe.b) = 0 => probe.ab[1] = 0

\* two overlapping boxes of different size, and a box of positive area
\* measured against itself
C34_Witness ==
  /\ Measured
  /\ Area(probe.a) > 0 /\ Area(probe.b) > Area(probe.a)
  /\ probe.ab[1] > 0 /\ probe.ab[1] < probe.ab[2]
  /\ probe.aa[1] = probe.aa[2]

\* C34 as stated: IoU(a, a) = 1 for every box a.
C34_SelfIouIsOne == Measured => probe.aa[1] = probe.aa[2]

\* the zone of a box as stated: x_c = (x1 + x2) / 2 against 0.33 W and
\* 0.66 W, in hundredths of half pixels
ZoneAsStated(bbox, width) ==
  IF 100 * (bbox[1] + bbox[3]) < 2 * 33 * width THEN "entrance"
  ELSE IF 100 * (bbox[1] + bbox[3]) < 2 * 66 * width THEN "middle"
  ELSE "exit"

Classified == probe.width > 0

\* C35: for every bbox and every frame of positive width W the zone is
\* entrance iff x_c < 0.33 W, middle iff 0.33 W <= x_c < 0.66 W and exit
\* otherwise, never another value; every detection process_frame hands to
\* the aggregator carries the zone of its clamped box.
C35_ZoneTotal ==
  /\ Classified =>
       /\ probe.zone \in {"entrance", "middle", "exit"}
       /\ probe.zone = ZoneAsStated(probe.a, probe.width)
  /\ \A i \in 1 .. Len(handled) :
       /\ handled[i].zone \in {"entrance", "middle", "exit"}
       /\ handled[i].zone = ZoneAsStated(handled[i].bbox, FrameWidth)

\* a box whose centre lies exactly on 0.33 W is classified middle
C35_Witness ==
  /\ Classified
  /\ 100 * (probe.a[1] + probe.a[3]) = 2 * 33 * probe.width
  /\ probe.a[1] < probe.a[3]
  /\ probe.zone = "middle"

\* a frame whose two detections were handed over with different zones
C35_FrameWitness ==
  /\ Len(handled) = 2
  /\ handled[1].zone = "exit" /\ handled[2].zone = "entrance"

\* the delay the worker measures in this state
Delay == clock - last_frame_time - frame_interval

\* C39: with a delay threshold of 100 ms, a frame interval of 33 ms and
\* max_skip_frames = 3 the skip count the worker computes is 0 or 3: a
\* delay above the threshold holds at least three frame intervals.
C39_SkipIsZeroOrMax ==
  /\ skip_frames \in {0, max_skip_frames}
  /\ Delay > DelayLimit => Delay \div frame_interval >= max_skip_frames

\* the worker has measured the smallest delay above the threshold, 101 ms,
\* and skips three frames
C39_Witness ==
  /\ Delay = DelayLimit + 1
  /\ skip_run = 1
  /\ skip_frames = max_skip_frames

\* the latest connect or start_stream_detection call has failed
ConnectFailed == ctl.op = "idle" /\ ctl.result \in {"failed", "raised"}

\* C38: after a connect attempt has failed, every capture handle opened
\* during it, one per retry, has been released, and the controller holds
\* no handle.
C38_FailedConnectReleasesAll ==
  ConnectFailed =>
    /\ cap = NoCap
    /\ \A h \in 1 .. Len(handles) : handles[h] # "open"

\* start_stream_detection has raised after three attempts; the captures of
\* all three are still open
C38_ThreeLeaked ==
  /\ ConnectFailed /\ ctl.attempt = max_retries
  /\ cap = NoCap
  /\ Len(handles) = max_retries
  /\ \A h \in 1 .. Len(handles) : handles[h] = "open"

\* C37: whenever the running flag is set the controller holds a capture
\* handle, in every reachable state, also while a connect call and a
\* disconnect call run at the same time.
C37_RunningHoldsCapture == is_running => cap # NoCap

\* connect has returned True with the flag set, and the disconnect that
\* ran beside it has returned with the capture released and cleared
C37_RunningWithoutCapture ==
  /\ ctl.op = "idle" /\ ctl.result = "connected"
  /\ stopper = "done"
  /\ is_running /\ cap = NoCap

\* C36: while frames keep arriving, a worker cycle that skips detection
\* because of the delay is eventually followed by a cycle that processes
\* a frame.
C36_SkippingEnds == (skip_run > 0) ~> (skip_run = 0)

=============================================================================
